---- MODULE Spec2Model ----
(***************************************************************************)
(* A model of the NES core: the console orchestrator (nes.rs) and the PPU  *)
(* scanline state machine (ppu.rs).  Fixed-width Rust integers are natural *)
(* numbers reduced modulo their width where the code can lose bits.        *)
(***************************************************************************)
EXTENDS Integers, Sequences, FiniteSets, TLC

VARIABLES
    nes,            \* NesState: ppu, master_clock, cpu_tick, last_frame, event tracker
    cart,           \* the mapper's PPU-side contents (Box<dyn Mapper>)
    pc,             \* the driver operation in progress ("idle" between operations)
    old_scanline,   \* run_until_hblank's local old_scanline
    obs,            \* history of the run: counts of calls, the last cycle's
                    \* sub-operations, the ticks and lengths of the frames
    last_write,     \* the most recent PpuState::write_byte call
    apu,            \* ApuState of apu.rs: frame sequencer and its two pulse channels
    pulse,          \* a PulseChannelState of apu/pulse.rs
    sound,          \* history of the audio run: the register stores scheduled and
                    \* made, what the last sequencer clock issued, the last output
    dmc,            \* the DmcState of apu/dmc.rs
    bus,            \* the CPU side the DMC fetches from (the mapper's answer, the
                    \* last byte on the CPU bus) and the history of its fetches
    save,           \* a save-state buffer, the objects written to it and those
                    \* read back from it
    range           \* one evaluation of evaluate_sprites' Y-range test

vars == <<nes, cart, pc, old_scanline, obs, last_write, apu, pulse, sound, dmc, bus,
          save, range>>

-----------------------------------------------------------------------------
(* Bit operations of the fixed-width integer types. *)

RECURSIVE BitAnd(_, _)
BitAnd(a, b) ==
    IF a = 0 \/ b = 0 THEN 0
    ELSE (a % 2) * (b % 2) + 2 * BitAnd(a \div 2, b \div 2)

RECURSIVE BitOr(_, _)
BitOr(a, b) ==
    IF a = 0 THEN b
    ELSE IF b = 0 THEN a
    ELSE (IF a % 2 = 1 \/ b % 2 = 1 THEN 1 ELSE 0) + 2 * BitOr(a \div 2, b \div 2)

RECURSIVE BitXor(_, _)
BitXor(a, b) ==
    IF a = 0 THEN b
    ELSE IF b = 0 THEN a
    ELSE ((a + b) % 2) + 2 * BitXor(a \div 2, b \div 2)

Shr(x, n) == x \div (2 ^ n)
Bit(x, n) == (x \div (2 ^ n)) % 2
Shl8(x, n) == (x * (2 ^ n)) % 256
Shl16(x, n) == (x * (2 ^ n)) % 65536
WrappingSub16(a, b) == (a - b + 65536) % 65536

\* Sequencing of two statements: the state x the first leaves is computed
\* once and handed to the second, F.
Then(x, F(_)) == CHOOSE r \in {F(y) : y \in {x}} : TRUE

-----------------------------------------------------------------------------
(* Program constants. *)

LastDot == 340
LastScanline == 261
MasterTicksPerCycle == 12
StepLoopLimit == 10
OamSprites == 64
SecondaryOamSlots == 8
RecentWritesKept == 20

NoByte == 0 - 1
\* a cartridge memory whose bytes differ from address to address
ByAddress == 0 - 2

-----------------------------------------------------------------------------
(* The mapper's PPU side: read_ppu / debug_read_ppu answer Some(byte) or    *)
(* None (open bus).  The cartridge answers one byte for the pattern tables  *)
(* and one for the nametables, or for either a byte told by the address.    *)

MapperReadPpu(c, address) ==
    LET byte == IF address < 8192 THEN c.chr ELSE c.nt
    IN  IF byte = ByAddress
        THEN IF address < 8192
             THEN ((address \div 16) * 29 + (address % 16) * 83 + 101) % 256
             ELSE (address * 7 + (address \div 32) * 3) % 256
        ELSE byte

\* write_ppu: the pattern tables are ROM, the nametables RAM
MapperWritePpu(c, address, data) ==
    IF address < 8192 \/ c.nt < 0 THEN c ELSE [c EXCEPT !.nt = data]

-----------------------------------------------------------------------------
(* SpriteLatch *)

SpriteLatchNew ==
    [tile_index |-> 0, bitmap_high |-> 0, bitmap_low |-> 0, attributes |-> 0,
     x_counter |-> 255, y_pos |-> 0, active |-> FALSE]

SpriteShift(l) ==
    IF l.active
    THEN IF BitAnd(l.attributes, 64) # 0
         THEN [l EXCEPT !.bitmap_high = Shr(l.bitmap_high, 1),
                        !.bitmap_low = Shr(l.bitmap_low, 1)]
         ELSE [l EXCEPT !.bitmap_high = Shl8(l.bitmap_high, 1),
                        !.bitmap_low = Shl8(l.bitmap_low, 1)]
    ELSE LET x1 == IF l.x_counter > 0 THEN l.x_counter - 1 ELSE l.x_counter
         IN  [l EXCEPT !.x_counter = x1, !.active = (x1 = 0)]

SpritePalette(l) == l.attributes % 4

SpriteBgPriority(l) == BitAnd(l.attributes, 32) # 0

SpriteYFlip(l) == BitAnd(l.attributes, 128) # 0

SpritePaletteIndex(l) ==
    IF BitAnd(l.attributes, 64) # 0
    THEN 2 * (l.bitmap_high % 2) + (l.bitmap_low % 2)
    ELSE 2 * Shr(l.bitmap_high, 7) + Shr(l.bitmap_low, 7)

-----------------------------------------------------------------------------
(* PpuState *)

DebugDefaultPaletteBytes ==
    << 12, 12, 28, 44,
        1, 17, 33, 49,
        2, 18, 34, 50,
        3, 19, 35, 51,
        5, 21, 37, 53,
        6, 22, 38, 54,
        7, 23, 39, 55,
        8, 24, 40, 56 >>

DebugDefaultPalette == [i \in 0..31 |-> DebugDefaultPaletteBytes[i + 1]]

PpuNew ==
    [oam |-> [i \in 0..255 |-> 0],
     secondary_oam |-> [i \in 0..(SecondaryOamSlots - 1) |-> SpriteLatchNew],
     secondary_oam_index |-> 0,
     palette |-> DebugDefaultPalette,
     current_frame |-> 0,
     current_scanline |-> 0,
     current_scanline_cycle |-> 0,
     control |-> 0,
     mask |-> 0,
     status |-> 0,
     open_bus |-> 0,
     read_buffer |-> 0,
     write_toggle |-> FALSE,
     current_vram_address |-> 0,
     temporary_vram_address |-> 0,
     fine_x |-> 0,
     tile_shift_low |-> 0,
     tile_shift_high |-> 0,
     tile_low |-> 0,
     tile_high |-> 0,
     tile_index |-> 0,
     palette_shift_low |-> 0,
     palette_shift_high |-> 0,
     palette_latch |-> 0,
     attribute_byte |-> 0,
     sprite_zero_on_scanline |-> FALSE,
     recent_writes |-> <<>>,
     plot |-> [x |-> 0, y |-> 0, pixel |-> 0],
     mapper_calls |-> <<>>]   \* history: the mapper's read_ppu and access_ppu
                              \* calls of the last clock or buffered read

DebugReadByte(p, c, address) ==
    LET masked_address == address % 16384
    IN  IF masked_address <= 16127
        THEN IF MapperReadPpu(c, masked_address) # NoByte
             THEN MapperReadPpu(c, masked_address)
             ELSE p.open_bus
        ELSE LET palette_address == IF BitAnd(masked_address % 32, 19) = 16
                                    THEN (masked_address % 32) - 16
                                    ELSE masked_address % 32
                 palette_entry == p.palette[palette_address]
             IN  IF p.mask % 2 # 0
                 THEN BitAnd(palette_entry, 48)
                 ELSE palette_entry

\* read_byte: the byte returned
ReadByteValue(p, c, address) == DebugReadByte(p, c, address)

\* read_byte: the state it leaves (open_bus follows every read below the palette)
ReadByteState(p, c, address) ==
    IF address % 16384 <= 16127
    THEN [p EXCEPT !.open_bus = DebugReadByte(p, c, address),
                   !.mapper_calls = Append(@, [op |-> "read_ppu",
                                               address |-> address % 16384])]
    ELSE p

\* the buffered read that returns the byte just read
ReadLatchedByteUnbuffered(p, c, address) ==
    LET p0 == [p EXCEPT !.mapper_calls = <<>>]
    IN  [state |-> [ReadByteState(p0, c, address) EXCEPT
                       !.read_buffer = ReadByteValue(p0, c, address)],
         value |-> ReadByteValue(p0, c, address)]

\* read_latched_byte: the state it leaves and the byte it returns
ReadLatchedByte(p, c, address) ==
    LET masked_address == address % 16384
        p0 == [p EXCEPT !.mapper_calls = <<>>]
    IN  IF masked_address >= 16128
        THEN LET under == MapperReadPpu(c, masked_address)
                 p1 == [p0 EXCEPT
                           !.read_buffer = IF under # NoByte THEN under ELSE p.open_bus,
                           !.mapper_calls = Append(@, [op |-> "read_ppu",
                                                       address |-> masked_address])]
             IN  [state |-> ReadByteState(p1, c, address),
                  value |-> ReadByteValue(p1, c, address)]
        ELSE [state |-> [ReadByteState(p0, c, address) EXCEPT
                            !.read_buffer = ReadByteValue(p0, c, address)],
              value |-> p.read_buffer]

\* the reload that replaces the byte about to be shown
ReloadShiftRegistersHighByte(p) ==
    [p EXCEPT !.tile_shift_high = BitOr(@ % 256, p.tile_high * 256),
              !.tile_shift_low = BitOr(@ % 256, p.tile_low * 256)]

\* access_byte: the address shown to the mapper, nothing read
AccessByte(p, address) ==
    [p EXCEPT !.mapper_calls = Append(@, [op |-> "access_ppu",
                                          address |-> address % 16384])]

\* write_byte with the sprite palette's backdrop entries stored unmirrored
WriteByteUnmirrored(p, address, data) ==
    LET masked_address == address % 16384
    IN  IF masked_address <= 16127
        THEN p
        ELSE [p EXCEPT !.palette[masked_address % 32] = data % 64]

\* write_byte: the PPU's side (the mapper's side is MapperWritePpu)
WriteByte(p, address, data) ==
    LET masked_address == address % 16384
        palette_address == IF BitAnd(masked_address % 32, 19) = 16
                           THEN (masked_address % 32) - 16
                           ELSE masked_address % 32
        p1 == [p EXCEPT !.recent_writes =
                            SubSeq(<<masked_address>> \o @, 1,
                                   IF Len(@) + 1 > RecentWritesKept
                                   THEN RecentWritesKept ELSE Len(@) + 1)]
    IN  IF masked_address <= 16127
        THEN p1
        ELSE [p1 EXCEPT !.palette[palette_address] = data % 64]

InitializeSecondaryOam(p) ==
    [p EXCEPT !.secondary_oam =
                  [i \in 0..(SecondaryOamSlots - 1) |->
                      [p.secondary_oam[i] EXCEPT !.tile_index = 255, !.active = FALSE]],
              !.secondary_oam_index = 0]

SpriteSize(p) == IF BitAnd(p.control, 32) # 0 THEN 16 ELSE 8

\* the Y-range test with its lower bound exclusive
SpriteInRangeExclusive(scanline, y, sprite_size) ==
    scanline > y /\ scanline < y + sprite_size

\* the Y-range test of evaluate_sprites; the sum is formed only when scanline >= y
SpriteInRange(scanline, y, sprite_size) ==
    scanline >= y /\ scanline < y + sprite_size

\* the sum formed whatever the first comparison says
SpriteRangeSumOverflowsEager(scanline, y, sprite_size) ==
    y + sprite_size > 255

\* the Y-range test forms y + sprite_size, and the sum leaves u8
SpriteRangeSumOverflows(scanline, y, sprite_size) ==
    scanline >= y /\ y + sprite_size > 255

\* the Y-range test on u8 operands in a build that panics on overflow
\* (checks) or one that wraps
SpriteRangeTest(r, checks) ==
    LET overflowed == SpriteRangeSumOverflows(r.scanline, r.y, r.sprite_size)
    IN  [r EXCEPT !.tested = TRUE,
                  !.overflowed = overflowed,
                  !.panicked = overflowed /\ checks,
                  !.in_range = IF overflowed
                               THEN ~checks /\ r.scanline >= r.y
                                    /\ r.scanline < (r.y + r.sprite_size) % 256
                               ELSE SpriteInRange(r.scanline, r.y, r.sprite_size)]

\* the loop's pass that copies a ninth sprite over the eighth slot
EvaluateSpriteOverwriting(p, i, scanline, sprite_size) ==
    IF ~SpriteInRange(scanline, p.oam[i * 4], sprite_size)
    THEN p
    ELSE LET slot == IF p.secondary_oam_index < SecondaryOamSlots
                     THEN p.secondary_oam_index
                     ELSE SecondaryOamSlots - 1
         IN  [p EXCEPT !.secondary_oam[slot] =
                            [@ EXCEPT !.y_pos = p.oam[i * 4],
                                      !.tile_index = p.oam[i * 4 + 1],
                                      !.attributes = p.oam[i * 4 + 2],
                                      !.x_counter = p.oam[i * 4 + 3],
                                      !.active = FALSE],
                        !.secondary_oam_index = slot + 1,
                        !.sprite_zero_on_scanline = (i = 0) \/ @,
                        !.status = IF p.secondary_oam_index < SecondaryOamSlots
                                   THEN @ ELSE BitOr(@, 32)]

\* evaluate_sprites: the loop's pass over OAM entry i
EvaluateSprite(p, i, scanline, sprite_size) ==
    IF ~SpriteInRange(scanline, p.oam[i * 4], sprite_size)
    THEN p
    ELSE IF p.secondary_oam_index < SecondaryOamSlots
         THEN [p EXCEPT !.secondary_oam[p.secondary_oam_index] =
                            [@ EXCEPT !.y_pos = p.oam[i * 4],
                                      !.tile_index = p.oam[i * 4 + 1],
                                      !.attributes = p.oam[i * 4 + 2],
                                      !.x_counter = p.oam[i * 4 + 3],
                                      !.active = FALSE],
                        !.secondary_oam_index = @ + 1,
                        !.sprite_zero_on_scanline = (i = 0) \/ @]
         ELSE [p EXCEPT !.status = BitOr(@, 32)]

\* evaluate_sprites: the loop's passes over OAM entries first .. last - 1, in
\* order: those of the lower half of the range, then those of the upper half
RECURSIVE EvaluateSpritesIn(_, _, _, _, _)
EvaluateSpritesIn(p, first, last, scanline, sprite_size) ==
    IF last - first = 1
    THEN EvaluateSprite(p, first, scanline, sprite_size)
    ELSE Then(EvaluateSpritesIn(p, first, first + (last - first) \div 2,
                                scanline, sprite_size),
              LAMBDA p1 :
                  EvaluateSpritesIn(p1, first + (last - first) \div 2, last,
                                    scanline, sprite_size))

EvaluateSprites(p) ==
    EvaluateSpritesIn(
        InitializeSecondaryOam([p EXCEPT !.sprite_zero_on_scanline = FALSE]),
        0, OamSprites, p.current_scanline % 256, SpriteSize(p))

\* the PPU that renders whatever the mask says
RenderingEnabledAlways(p) == TRUE

RenderingEnabled(p) == BitAnd(p.mask, 24) # 0

ShiftBgRegisters(p) ==
    [p EXCEPT !.tile_shift_high = Shl16(@, 1),
              !.tile_shift_low = Shl16(@, 1),
              !.palette_shift_high = BitOr(Shl8(@, 1), Shr(BitAnd(p.palette_latch, 2), 1)),
              !.palette_shift_low = BitOr(Shl8(@, 1), BitAnd(p.palette_latch, 1))]

ReloadShiftRegisters(p) ==
    LET attr_x == Shr(BitAnd(p.current_vram_address, 2), 1)
        attr_y == Shr(BitAnd(p.current_vram_address, 64), 6)
        palette_shift == BitOr(attr_y * 2, attr_x) * 2
    IN  [p EXCEPT !.tile_shift_high = BitOr(BitAnd(@, 65280), p.tile_high),
                  !.tile_shift_low = BitOr(BitAnd(@, 65280), p.tile_low),
                  !.palette_latch = Shr(p.attribute_byte, palette_shift) % 4]

PlotPixel(p, x, y, color) ==
    [p EXCEPT !.plot = [x |-> x, y |-> y,
                        pixel |-> BitOr(BitAnd(p.mask, 224) * 2, color % 64)]]

\* draw_pixel without the left-column clipping of the background
BgPaletteIndexNoClip(p) ==
    IF BitAnd(p.mask, 8) = 0
    THEN 0
    ELSE 2 * Bit(p.tile_shift_high, 15 - p.fine_x)
           + Bit(p.tile_shift_low, 15 - p.fine_x)

\* draw_pixel: the background palette index after the mask's clipping
BgPaletteIndex(p) ==
    LET px == p.current_scanline_cycle - 1
    IN  IF BitAnd(p.mask, 8) = 0 \/ (BitAnd(p.mask, 2) = 0 /\ px < 8)
        THEN 0
        ELSE 2 * Bit(p.tile_shift_high, 15 - p.fine_x)
               + Bit(p.tile_shift_low, 15 - p.fine_x)

BgPaletteNumber(p) ==
    IF BgPaletteIndex(p) = 0
    THEN 0
    ELSE 2 * Bit(p.palette_shift_high, 7 - p.fine_x)
           + Bit(p.palette_shift_low, 7 - p.fine_x)

\* draw_pixel: whether the sprite pass runs for this pixel
SpritePassEnabled(p) ==
    LET px == p.current_scanline_cycle - 1
    IN  BitAnd(p.mask, 16) # 0 /\ (BitAnd(p.mask, 4) # 0 \/ px >= 8)

\* draw_pixel: the lowest numbered latch with an opaque pixel, 8 when there is none
LowestOpaqueSprite(p) ==
    LET opaque == {i \in 0..(p.secondary_oam_index - 1) :
                      p.secondary_oam[i].active
                      /\ SpritePaletteIndex(p.secondary_oam[i]) # 0}
    IN  IF opaque = {} THEN 8
        ELSE CHOOSE i \in opaque : \A j \in opaque : i <= j

\* draw_pixel: the condition under which status bit 6 is set
SpriteZeroHit(p) ==
    /\ SpritePassEnabled(p)
    /\ LowestOpaqueSprite(p) < 8
    /\ p.sprite_zero_on_scanline
    /\ LowestOpaqueSprite(p) = 0
    /\ BgPaletteIndex(p) # 0

DrawPixel(p, c) ==
    LET px == p.current_scanline_cycle - 1
        py == p.current_scanline
        bg_color == ReadByteValue(p, c, (BgPaletteNumber(p) * 4 + BgPaletteIndex(p)) + 16128)
        sprite_index == LowestOpaqueSprite(p)
        sprite_wins == /\ SpritePassEnabled(p)
                       /\ sprite_index < 8
                       /\ (BgPaletteIndex(p) = 0
                           \/ ~SpriteBgPriority(p.secondary_oam[sprite_index]))
        pixel_color ==
            IF sprite_wins
            THEN ReadByteValue(p, c,
                     SpritePalette(p.secondary_oam[sprite_index]) * 4
                     + SpritePaletteIndex(p.secondary_oam[sprite_index]) + 16144)
            ELSE bg_color
        hit == [p EXCEPT !.status = IF SpriteZeroHit(p) THEN BitOr(@, 64) ELSE @]
    IN  PlotPixel(hit, px, py, pixel_color)

IncrementCoarseX(p) ==
    LET coarse_x == (p.current_vram_address % 32) + 1
        v1 == IF coarse_x > 31
              THEN BitXor(p.current_vram_address, 1024)
              ELSE p.current_vram_address
    IN  [p EXCEPT !.current_vram_address = BitOr(BitAnd(v1, 32736), coarse_x % 32)]

\* the carry out of row 29 that stays in the same nametable
IncrementCoarseYWithoutFlip(p) ==
    LET coarse_y == Shr(BitAnd(p.current_vram_address, 992), 5) + 1
        cy == IF coarse_y = 30 THEN 0 ELSE coarse_y
    IN  [p EXCEPT !.current_vram_address =
                      BitOr(BitAnd(p.current_vram_address, 31775), (cy % 32) * 32)]

IncrementCoarseY(p) ==
    LET coarse_y == Shr(BitAnd(p.current_vram_address, 992), 5) + 1
        v1 == IF coarse_y = 30
              THEN BitXor(p.current_vram_address, 2048)
              ELSE p.current_vram_address
        cy == IF coarse_y = 30 THEN 0 ELSE coarse_y
    IN  [p EXCEPT !.current_vram_address = BitOr(BitAnd(v1, 31775), (cy % 32) * 32)]

FineY(p) == Shr(BitAnd(p.current_vram_address, 28672), 12)

IncrementFineY(p) ==
    LET fine_y == FineY(p) + 1
        p1 == IF fine_y > 7 THEN IncrementCoarseY(p) ELSE p
        fy == IF fine_y > 7 THEN 0 ELSE fine_y
    IN  [p1 EXCEPT !.current_vram_address = BitOr(BitAnd(@, 4095), (fy % 8) * 4096)]

BgPatternAddress(p) == IF BitAnd(p.control, 16) # 0 THEN 4096 ELSE 0

NametableFetchAddress(p) == BitOr(8192, BitAnd(p.current_vram_address, 4095))

\* the tick that leaves the early access out
AccessBgTileEarlySkipped(p) == p

AccessBgTileEarly(p) ==
    AccessByte(p, BgPatternAddress(p) + p.tile_index * 16 + FineY(p))

FetchBgTile(p, c, sub_cycle) ==
    CASE sub_cycle = 0 ->
            LET a == NametableFetchAddress(p)
            IN  [ReadByteState(p, c, a) EXCEPT !.tile_index = ReadByteValue(p, c, a)]
      [] sub_cycle = 2 ->
            LET a == BitOr(BitOr(9152, BitAnd(p.current_vram_address, 3072)),
                           BitOr(BitAnd(Shr(p.current_vram_address, 4), 56),
                                 BitAnd(Shr(p.current_vram_address, 2), 7)))
            IN  [ReadByteState(p, c, a) EXCEPT !.attribute_byte = ReadByteValue(p, c, a)]
      [] sub_cycle = 4 ->
            LET a == BgPatternAddress(p) + p.tile_index * 16 + FineY(p)
            IN  [ReadByteState(p, c, a) EXCEPT !.tile_low = ReadByteValue(p, c, a)]
      [] sub_cycle = 6 ->
            LET a == BgPatternAddress(p) + p.tile_index * 16 + 8 + FineY(p)
            IN  [ReadByteState(p, c, a) EXCEPT !.tile_high = ReadByteValue(p, c, a)]
      [] sub_cycle = 7 -> IncrementCoarseX(ReloadShiftRegisters(p))
      [] OTHER -> p

FetchSpriteTiles(p, c) ==
    LET sub_cycle == (p.current_scanline_cycle - 257) % 8
        p1 == IF sub_cycle = 0 \/ sub_cycle = 2
              THEN ReadByteState(p, c, NametableFetchAddress(p))
              ELSE p
        sprite_index == (p.current_scanline_cycle - 257) \div 8
        latch == p.secondary_oam[sprite_index]
        sprite_size == SpriteSize(p)
        pattern_address ==
            IF sprite_size = 16
            THEN (IF latch.tile_index % 2 # 0 THEN 4096 ELSE 0)
            ELSE (IF BitAnd(p.control, 8) # 0 THEN 4096 ELSE 0)
        tile0 == IF sprite_size = 16 THEN BitAnd(latch.tile_index, 254) ELSE latch.tile_index
        y0 == WrappingSub16(p.current_scanline, latch.y_pos)
        y1 == IF SpriteYFlip(latch)
              THEN WrappingSub16(WrappingSub16(sprite_size, 1), y0)
              ELSE y0
        tile1 == IF y1 >= 8 THEN (tile0 + 1) % 256 ELSE tile0
        y_offset == (IF y1 >= 8 THEN WrappingSub16(y1, 8) ELSE y1) % 8
        tile_address == BitOr(BitAnd(tile1 * 16 + y_offset, 4095), pattern_address)
    IN  IF sub_cycle = 4
        THEN [ReadByteState(p1, c, tile_address) EXCEPT
                 !.secondary_oam[sprite_index].bitmap_low = ReadByteValue(p1, c, tile_address)]
        ELSE IF sub_cycle = 6
        THEN [ReadByteState(p1, c, tile_address + 8) EXCEPT
                 !.secondary_oam[sprite_index].bitmap_high =
                     ReadByteValue(p1, c, tile_address + 8)]
        ELSE p1

ShiftSprites(p) ==
    [p EXCEPT !.secondary_oam =
                  [i \in 0..(SecondaryOamSlots - 1) |->
                      IF i < p.secondary_oam_index
                      THEN SpriteShift(p.secondary_oam[i])
                      ELSE p.secondary_oam[i]]]

\* the horizontal bits of t added to those of v
ReloadXScrollWithoutClear(p) ==
    [p EXCEPT !.current_vram_address =
                  BitOr(@, BitAnd(p.temporary_vram_address, 1055))]

\* the horizontal bits of t copied into v
ReloadXScroll(p) ==
    [p EXCEPT !.current_vram_address =
                  BitOr(BitAnd(@, 31712), BitAnd(p.temporary_vram_address, 1055))]

\* the vertical bits of t copied into v
ReloadYScroll(p) ==
    [p EXCEPT !.current_vram_address =
                  BitOr(BitAnd(@, 1055), BitAnd(p.temporary_vram_address, 31712))]

\* the jump made on every frame, whatever its parity
SkipDotEveryFrame(p) ==
    [p EXCEPT !.current_scanline_cycle = 0,
              !.current_scanline = 0,
              !.current_frame = @ + 1]

\* the odd-frame jump with the dot counter left where it is
SkipOddFrameDotNoReset(p) ==
    IF p.current_frame % 2 # 0
    THEN [p EXCEPT !.current_scanline = 0,
                   !.current_frame = @ + 1]
    ELSE p

\* the odd-frame jump of prerender_scanline's dot 340
SkipOddFrameDot(p) ==
    IF p.current_frame % 2 # 0
    THEN [p EXCEPT !.current_scanline_cycle = 0,
                   !.current_scanline = 0,
                   !.current_frame = @ + 1]
    ELSE p

\* the clear that leaves the sprite-zero-hit bit standing
ClearStatusFlagsKeepHit(p) == [p EXCEPT !.status = BitAnd(@, 95)]

\* vblank, sprite overflow and sprite zero hit cleared
ClearStatusFlags(p) == [p EXCEPT !.status = BitAnd(@, 31)]

PrerenderScanline(p, c) ==
    LET dot == p.current_scanline_cycle
        on == RenderingEnabled(p)
    IN  CASE dot = 1 ->
                LET p1 == ClearStatusFlags(p)
                IN  IF on THEN FetchBgTile(p1, c, 0) ELSE p1
          [] dot >= 2 /\ dot <= 256 ->
                IF on THEN FetchBgTile(p, c, (dot - 1) % 8) ELSE p
          [] dot = 257 ->
                IF on
                THEN FetchSpriteTiles(InitializeSecondaryOam(ReloadXScroll(p)), c)
                ELSE p
          [] dot >= 258 /\ dot <= 279 ->
                IF on THEN FetchSpriteTiles(p, c) ELSE p
          [] dot >= 280 /\ dot <= 304 ->
                IF on THEN FetchSpriteTiles(ReloadYScroll(p), c) ELSE p
          [] dot >= 305 /\ dot <= 320 ->
                IF on THEN FetchSpriteTiles(p, c) ELSE p
          [] dot >= 321 /\ dot <= 336 ->
                IF on THEN FetchBgTile(ShiftBgRegisters(p), c, (dot - 321) % 8) ELSE p
          [] dot = 337 \/ dot = 339 ->
                IF on
                THEN [ReadByteState(p, c, NametableFetchAddress(p)) EXCEPT
                         !.tile_index = ReadByteValue(p, c, NametableFetchAddress(p))]
                ELSE p
          [] dot = 340 ->
                IF on THEN SkipOddFrameDot(p) ELSE p
          [] OTHER -> p

RenderScanline(p, c) ==
    LET dot == p.current_scanline_cycle
    IN  IF RenderingEnabled(p)
        THEN CASE dot = 0 -> AccessBgTileEarly(p)
               [] dot >= 1 /\ dot <= 256 ->
                     LET p1 == FetchBgTile(ShiftSprites(ShiftBgRegisters(DrawPixel(p, c))),
                                           c, (dot - 1) % 8)
                     IN  IF dot = 256 THEN IncrementFineY(p1) ELSE p1
               [] dot >= 257 /\ dot <= 320 ->
                     IF dot = 257
                     THEN FetchSpriteTiles(EvaluateSprites(ReloadXScroll(p)), c)
                     ELSE FetchSpriteTiles(p, c)
               [] dot >= 321 /\ dot <= 336 ->
                     FetchBgTile(ShiftBgRegisters(p), c, (dot - 321) % 8)
               [] dot = 337 \/ dot = 339 ->
                     [ReadByteState(p, c, NametableFetchAddress(p)) EXCEPT
                         !.tile_index = ReadByteValue(p, c, NametableFetchAddress(p))]
               [] OTHER -> p
        ELSE IF dot >= 1 /\ dot <= 256
             THEN LET v == p.current_vram_address
                      pixel_color == IF v >= 16128 /\ v <= 16383
                                     THEN ReadByteValue(p, c, v)
                                     ELSE ReadByteValue(p, c, 16128)
                  IN  PlotPixel(p, dot - 1, p.current_scanline, pixel_color)
             ELSE p

\* the flag set one dot early
VblankScanlineAtDotZero(p) ==
    IF p.current_scanline_cycle = 0
    THEN [p EXCEPT !.status = BitAnd(@, 127) + 128]
    ELSE p

VblankScanline(p) ==
    IF p.current_scanline_cycle = 1
    THEN [p EXCEPT !.status = BitAnd(@, 127) + 128]
    ELSE p

\* the end of the tick with the dot counter wrapping one dot late
AdvanceDotLateWrap(p) ==
    LET dot == p.current_scanline_cycle + 1
    IN  IF dot > LastDot + 1
        THEN IF p.current_scanline + 1 > LastScanline
             THEN [p EXCEPT !.current_scanline_cycle = 0,
                            !.current_scanline = 0,
                            !.current_frame = @ + 1]
             ELSE [p EXCEPT !.current_scanline_cycle = 0,
                            !.current_scanline = @ + 1]
        ELSE [p EXCEPT !.current_scanline_cycle = dot]

\* clock: the end of the tick, advancing the frame position
AdvanceDot(p) ==
    LET dot == p.current_scanline_cycle + 1
    IN  IF dot > LastDot
        THEN IF p.current_scanline + 1 > LastScanline
             THEN [p EXCEPT !.current_scanline_cycle = 0,
                            !.current_scanline = 0,
                            !.current_frame = @ + 1]
             ELSE [p EXCEPT !.current_scanline_cycle = 0,
                            !.current_scanline = @ + 1]
        ELSE [p EXCEPT !.current_scanline_cycle = dot]

PpuClock(p, c) ==
    LET p0 == [p EXCEPT !.mapper_calls = <<>>]
        s == p.current_scanline
        p1 == CASE s >= 0 /\ s <= 239 -> RenderScanline(p0, c)
                [] s = 240 ->
                      IF p.current_scanline_cycle = 1 /\ RenderingEnabled(p)
                      THEN ReadByteState(p0, c, p.current_vram_address)
                      ELSE p0
                [] s = 241 -> VblankScanline(p0)
                [] s = 261 -> PrerenderScanline(p0, c)
                [] OTHER -> p0
    IN  AdvanceDot(p1)

-----------------------------------------------------------------------------
(* NesState and the history of a run.  A "world" w pairs the console state  *)
(* w.n with the history w.o, so that the sub-operations of one driver call  *)
(* compose in the order the code makes them.                                *)

NesNew ==
    [ppu |-> PpuNew,
     master_clock |-> 0,
     cpu_tick |-> 0,
     last_frame |-> 0,
     event_scanline |-> 0,
     event_cycle |-> 0]

ObsNew ==
    [cycles |-> 0,          \* NesState::cycle() calls
     ppu_ticks |-> 0,       \* PpuState::clock() calls
     cycle_log |-> <<>>,    \* the sub-operations performed, in order
     frame_ticks |-> 0,     \* clock() calls begun in the current frame
     frame_on |-> TRUE,     \* rendering was enabled at each of them
     status_before |-> 0,   \* the status register before the last clock() call
     data_reads |-> 0,      \* PpuState::read_latched_byte() calls
     read_address |-> 0,    \* the address of the last of them
     read_value |-> 0,      \* the byte it returned
     run_calls |-> 0,       \* run_until_hblank() and run_until_vblank() calls
     run_kind |-> "none",   \* which of the two the last of them was
     prev_kind |-> "none",  \* which the call before it was
     run_frame |-> 0,       \* current_frame when the last call began
     short_steps |-> 0,     \* step() calls of theirs that ran one cycle
     frames |-> <<>>]       \* one record per completed frame

Log(w, name) == [w EXCEPT !.o.cycle_log = Append(@, name)]

\* the history of frames after a clock() call that took the PPU from p to p1
ObserveTick(o, p, p1) ==
    LET on == RenderingEnabled(p)
        ended == p1.current_frame # p.current_frame
    IN  [o EXCEPT
           !.ppu_ticks = @ + 1,
           !.frame_ticks = IF ended THEN 0 ELSE @ + 1,
           !.frame_on = IF ended THEN TRUE ELSE (@ /\ on),
           !.status_before = p.status,
           !.frames = IF ended
                      THEN Append(@, [number |-> p.current_frame,
                                      ticks |-> o.frame_ticks + 1,
                                      all_on |-> o.frame_on /\ on,
                                      end_on |-> on,
                                      end_dot |-> p.current_scanline_cycle,
                                      next_dot |-> p1.current_scanline_cycle])
                      ELSE @]

\* one PpuState::clock() call, with the history of frames kept beside it
TickPpu(w, c) ==
    Then(PpuClock(w.n.ppu, c),
         LAMBDA p1 : [n |-> [w.n EXCEPT !.ppu = p1],
                      o |-> ObserveTick(w.o, w.n.ppu, p1)])

\* a CPU store to a PPU register
NoWrite == [reg |-> "none", value |-> 0]

CpuWrite(p, wr) ==
    CASE wr.reg = "mask" -> [p EXCEPT !.mask = wr.value]
      [] wr.reg = "control" -> [p EXCEPT !.control = wr.value]
      [] OTHER -> p

\* cycle_cpu::run_one_clock: one CPU micro-step.  in.done says whether it ends
\* the instruction (tick returns to 0); in.write is the store it performs.
RunOneClock(w, in) ==
    Log([w EXCEPT !.n.cpu_tick = IF in.done THEN 0 ELSE 1,
                  !.n.ppu = CpuWrite(@, in.write)],
        "cpu")

\* the master clock advanced by the PPU's divider instead of the CPU's
AdvanceMasterClockByFour(w) ==
    Log([w EXCEPT !.n.master_clock = @ + 4], "master_clock")

AdvanceMasterClock(w) ==
    Log([w EXCEPT !.n.master_clock = @ + MasterTicksPerCycle], "master_clock")

TrackEvents(w) ==
    [w EXCEPT !.n.event_scanline = w.n.ppu.current_scanline,
              !.n.event_cycle = w.n.ppu.current_scanline_cycle]

\* ApuState::clock_apu
ClockApu(w) == Log(w, "apu")

\* Mapper::clock_cpu
MapperClockCpu(w) == Log(w, "mapper")

\* n consecutive self.ppu.clock(&mut *self.mapper) statements of cycle()
RECURSIVE TickPpuTimes(_, _, _)
TickPpuTimes(w, c, n) ==
    IF n = 0 THEN w
    ELSE Then(Log(TickPpu(w, c), "ppu"), LAMBDA w1 : TickPpuTimes(w1, c, n - 1))

\* cycle() with the PPU ticked before the CPU micro-step
NesCyclePpuFirst(w, c, in) ==
    Then(TickPpuTimes(w, c, 3), LAMBDA w1 :
    Then(RunOneClock(w1, in), LAMBDA w2 :
    Then(AdvanceMasterClock(w2), LAMBDA w5 :
    Then(TrackEvents(w5), LAMBDA w6 :
    Then(ClockApu(w6), LAMBDA w7 :
    Then(MapperClockCpu(w7), LAMBDA w8 :
        [w8 EXCEPT !.o.cycles = @ + 1]))))))

\* cycle() with two PPU ticks
NesCycleTwoTicks(w, c, in) ==
    Then(RunOneClock(w, in), LAMBDA w1 :
    Then(AdvanceMasterClock(w1), LAMBDA w2 :
    Then(TickPpuTimes(w2, c, 2), LAMBDA w5 :
    Then(TrackEvents(w5), LAMBDA w6 :
    Then(ClockApu(w6), LAMBDA w7 :
    Then(MapperClockCpu(w7), LAMBDA w8 :
        [w8 EXCEPT !.o.cycles = @ + 1]))))))

NesCycle(w, c, in) ==
    Then(RunOneClock(w, in), LAMBDA w1 :
    Then(AdvanceMasterClock(w1), LAMBDA w2 :
    Then(TickPpuTimes(w2, c, 3), LAMBDA w5 :
    Then(TrackEvents(w5), LAMBDA w6 :
    Then(ClockApu(w6), LAMBDA w7 :
    Then(MapperClockCpu(w7), LAMBDA w8 :
        [w8 EXCEPT !.o.cycles = @ + 1]))))))

\* step(): sin.n is the cycle whose micro-step ends the instruction (more than
\* StepLoopLimit + 1 when the instruction never ends), sin.write the store
\* made by the first micro-step.
RECURSIVE StepLoop(_, _, _, _)
StepLoop(w, c, i, sin) ==
    IF w.n.cpu_tick >= 1 /\ i < StepLoopLimit
    THEN Then(NesCycle(w, c, [done |-> (i + 2 = sin.n), write |-> NoWrite]),
              LAMBDA w1 : StepLoop(w1, c, i + 1, sin))
    ELSE w

NesStep(w, c, sin) ==
    Then(NesCycle(w, c, [done |-> (sin.n = 1), write |-> sin.write]), LAMBDA w1 :
    Then(StepLoop(w1, c, 0, sin), LAMBDA w2 :
        IF w2.n.ppu.current_frame # w2.n.last_frame
        THEN [w2 EXCEPT !.n.last_frame = w2.n.ppu.current_frame]
        ELSE w2))

NudgePpuAlignmentOp(w, c) == TrackEvents(TickPpu(w, c))

\* nudge_ppu_alignment called n times (n > 0): the first half of the calls,
\* then the rest
RECURSIVE NudgeTimes(_, _, _)
NudgeTimes(w, c, n) ==
    IF n = 1 THEN NudgePpuAlignmentOp(w, c)
    ELSE Then(NudgeTimes(w, c, n \div 2), LAMBDA w1 : NudgeTimes(w1, c, n - (n \div 2)))

-----------------------------------------------------------------------------
(* The audio unit of apu.rs: the frame sequencer and its two pulse         *)
(* channels.  An arithmetic overflow panics in a build with overflow       *)
(* checks and wraps in one without; the history records which build runs   *)
(* (overflow_checks) and that the panic happened (panicked).  The sample   *)
(* buffer is kept as the last sample stored in it.                         *)

\* PulseChannelState::new of apu.rs
ApuPulseNew(sweep_ones_compliment) ==
    [enabled |-> FALSE,
     volume |-> 0,
     decay |-> 0,
     envelope_enabled |-> FALSE,
     envelope_loop |-> FALSE,
     length_enabled |-> FALSE,
     envelope_start |-> FALSE,
     sweep_enabled |-> FALSE,
     sweep_period |-> 0,
     sweep_divider |-> 0,
     sweep_negate |-> FALSE,
     sweep_shift |-> 0,
     sweep_reload |-> FALSE,
     sweep_ones_compliment |-> sweep_ones_compliment,
     duty |-> 1,
     sequence_counter |-> 0,
     period_initial |-> 0,
     period_current |-> 0,
     length |-> 0]

ApuPulseClock(p) ==
    IF p.period_current = 0
    THEN [p EXCEPT !.period_current = p.period_initial,
                   !.sequence_counter = IF @ = 0 THEN 7 ELSE @ - 1]
    ELSE [p EXCEPT !.period_current = @ - 1]

ApuPulseOutput(p) == Bit(p.duty, p.sequence_counter) * p.volume

\* the u16 the subtraction or addition leaves when it wraps
ApuPulseTargetPeriod(p) ==
    LET change_amount == Shr(p.period_initial, p.sweep_shift)
    IN  IF p.sweep_negate
        THEN IF p.sweep_ones_compliment
             THEN WrappingSub16(WrappingSub16(p.period_initial, change_amount), 1)
             ELSE WrappingSub16(p.period_initial, change_amount)
        ELSE (p.period_initial + change_amount) % 65536

\* the arithmetic of target_period leaves the range of u16
ApuPulseTargetOverflows(p) ==
    LET change_amount == Shr(p.period_initial, p.sweep_shift)
    IN  IF p.sweep_negate
        THEN p.sweep_ones_compliment /\ p.period_initial - change_amount - 1 < 0
        ELSE p.period_initial + change_amount > 65535

ApuPulseUpdateSweep(p) ==
    LET target_period == ApuPulseTargetPeriod(p)
        swept == IF /\ p.sweep_divider = 0
                    /\ p.sweep_enabled
                    /\ p.sweep_shift # 0
                    /\ target_period <= 2047
                    /\ p.period_initial >= 8
                 THEN [p EXCEPT !.period_initial = target_period]
                 ELSE p
    IN  IF p.sweep_divider = 0 \/ p.sweep_reload
        THEN [swept EXCEPT !.sweep_divider = p.sweep_period, !.sweep_reload = FALSE]
        ELSE [swept EXCEPT !.sweep_divider = @ - 1]

\* the sample last stored, and the two output() values it was made of
NoSample == [index |-> 0, value |-> 0, pulse_1 |-> 0, pulse_2 |-> 0]

ApuNew ==
    [current_cycle |-> 0,
     frame_sequencer_mode |-> 0,
     frame_sequencer |-> 0,
     frame_reset_delay |-> 0,
     frame_interrupt |-> FALSE,
     disable_interrupt |-> FALSE,
     pulse_1 |-> ApuPulseNew(TRUE),
     pulse_2 |-> ApuPulseNew(FALSE),
     last_sample |-> NoSample,
     sample_rate |-> 44100,
     cpu_clock_rate |-> 1786860,
     buffer_index |-> 0,
     generated_samples |-> 0,
     next_sample_at |-> 0]

DutyTable == <<128, 192, 240, 63>>

\* the stores to 0x4000..0x4003, or 0x4004..0x4007, seen from the channel
ApuPulseWriteRegister(p, register, data) ==
    CASE register = 0 ->
            [p EXCEPT !.duty = DutyTable[Shr(BitAnd(data, 192), 6) + 1],
                      !.length_enabled = (BitAnd(data, 32) = 0),
                      !.envelope_enabled = (BitAnd(data, 16) = 0),
                      !.volume = IF BitAnd(data, 16) # 0 THEN BitAnd(data, 15) ELSE @]
      [] register = 1 ->
            [p EXCEPT !.sweep_enabled = (BitAnd(data, 128) # 0),
                      !.sweep_period = Shr(BitAnd(data, 112), 4),
                      !.sweep_negate = (BitAnd(data, 8) # 0),
                      !.sweep_shift = BitAnd(data, 7),
                      !.sweep_reload = TRUE]
      [] register = 2 ->
            [p EXCEPT !.period_initial = BitOr(BitAnd(@, 65280), data)]
      [] OTHER ->
            [p EXCEPT !.period_initial = BitOr(BitAnd(@, 255), Shl16(BitAnd(data, 7), 8)),
                      !.length = Shr(BitAnd(data, 248), 3),
                      !.sequence_counter = 0,
                      !.envelope_start = TRUE]

FrameResetDelay == 4

FrameCounterRegister == 16407

ApuWriteRegister(a, address, data) ==
    CASE address >= 16384 /\ address <= 16387 ->
            [a EXCEPT !.pulse_1 = ApuPulseWriteRegister(@, address - 16384, data)]
      [] address >= 16388 /\ address <= 16391 ->
            [a EXCEPT !.pulse_2 = ApuPulseWriteRegister(@, address - 16388, data)]
      [] address = FrameCounterRegister ->
            [a EXCEPT !.frame_sequencer_mode = Shr(BitAnd(data, 128), 7),
                      !.disable_interrupt = (BitAnd(data, 64) # 0),
                      !.frame_reset_delay = FrameResetDelay]
      [] OTHER -> a

\* what one clock_frame_sequencer call did: the counter after its increment,
\* the quarter- and half-frame clocks it issued, whether it reset the
\* sequencer, whether it assigned frame_interrupt and whether that raised it
NoSequencerClock ==
    [count |-> 0, quarter |-> 0, half |-> 0, reset |-> FALSE,
     irq_set |-> FALSE, raised |-> FALSE]

ClockQuarterFrame(w) == [w EXCEPT !.o.clock.quarter = @ + 1]

ClockHalfFrame(w) ==
    [w EXCEPT !.a.pulse_1 = ApuPulseUpdateSweep(@),
              !.a.pulse_2 = ApuPulseUpdateSweep(@),
              !.o.clock.half = @ + 1,
              !.o.panicked = @ \/ (w.o.overflow_checks
                                   /\ (ApuPulseTargetOverflows(w.a.pulse_1)
                                       \/ ApuPulseTargetOverflows(w.a.pulse_2)))]

SetFrameInterrupt(w) ==
    [w EXCEPT !.a.frame_interrupt = TRUE,
              !.o.clock.irq_set = TRUE,
              !.o.clock.raised = @ \/ ~w.a.frame_interrupt]

\* the reset that issues no clock in either mode
FrameResetWithoutClocks(w) ==
    IF w.a.frame_reset_delay > 0
    THEN IF w.a.frame_reset_delay = 1
         THEN [w EXCEPT !.a.frame_reset_delay = 0,
                        !.a.frame_sequencer = 0,
                        !.o.clock.reset = TRUE]
         ELSE [w EXCEPT !.a.frame_reset_delay = @ - 1]
    ELSE w

\* the reset a store to 0x4017 scheduled
FrameReset(w) ==
    IF w.a.frame_reset_delay > 0
    THEN IF w.a.frame_reset_delay = 1
         THEN LET zeroed == [w EXCEPT !.a.frame_reset_delay = 0,
                                      !.a.frame_sequencer = 0,
                                      !.o.clock.reset = TRUE]
              IN  IF w.a.frame_sequencer_mode = 1
                  THEN ClockHalfFrame(ClockQuarterFrame(zeroed))
                  ELSE zeroed
         ELSE [w EXCEPT !.a.frame_reset_delay = @ - 1]
    ELSE w

\* the four-step sequence raising the interrupt one clock late
FourStepSequenceLateInterrupt(w) ==
    CASE w.a.frame_sequencer = 7457 -> ClockQuarterFrame(w)
      [] w.a.frame_sequencer = 14913 -> ClockHalfFrame(ClockQuarterFrame(w))
      [] w.a.frame_sequencer = 22371 -> ClockQuarterFrame(w)
      [] w.a.frame_sequencer = 29829 ->
            ClockHalfFrame(ClockQuarterFrame(SetFrameInterrupt(w)))
      [] w.a.frame_sequencer = 29830 ->
            [SetFrameInterrupt(w) EXCEPT !.a.frame_sequencer = 0]
      [] OTHER -> w

FourStepSequence(w) ==
    CASE w.a.frame_sequencer = 7457 -> ClockQuarterFrame(w)
      [] w.a.frame_sequencer = 14913 -> ClockHalfFrame(ClockQuarterFrame(w))
      [] w.a.frame_sequencer = 22371 -> ClockQuarterFrame(w)
      [] w.a.frame_sequencer = 29828 -> SetFrameInterrupt(w)
      [] w.a.frame_sequencer = 29829 ->
            ClockHalfFrame(ClockQuarterFrame(SetFrameInterrupt(w)))
      [] w.a.frame_sequencer = 29830 ->
            [SetFrameInterrupt(w) EXCEPT !.a.frame_sequencer = 0]
      [] OTHER -> w

\* the five-step sequence ending where the four-step one does
FiveStepSequenceShort(w) ==
    CASE w.a.frame_sequencer = 7457 -> ClockQuarterFrame(w)
      [] w.a.frame_sequencer = 14913 -> ClockHalfFrame(ClockQuarterFrame(w))
      [] w.a.frame_sequencer = 22371 -> ClockQuarterFrame(w)
      [] w.a.frame_sequencer = 29829 -> ClockHalfFrame(ClockQuarterFrame(w))
      [] w.a.frame_sequencer = 29830 -> [w EXCEPT !.a.frame_sequencer = 0]
      [] OTHER -> w

FiveStepSequence(w) ==
    CASE w.a.frame_sequencer = 7457 -> ClockQuarterFrame(w)
      [] w.a.frame_sequencer = 14913 -> ClockHalfFrame(ClockQuarterFrame(w))
      [] w.a.frame_sequencer = 22371 -> ClockQuarterFrame(w)
      [] w.a.frame_sequencer = 37281 -> ClockHalfFrame(ClockQuarterFrame(w))
      [] w.a.frame_sequencer = 37282 -> [w EXCEPT !.a.frame_sequencer = 0]
      [] OTHER -> w

ClockFrameSequencer(w) ==
    LET counted == [w EXCEPT !.a.frame_sequencer = @ + 1,
                             !.o.clock = [NoSequencerClock EXCEPT
                                             !.count = w.a.frame_sequencer + 1],
                             !.o.since_write = @ + 1]
        reset == FrameReset(counted)
    IN  IF reset.a.frame_sequencer_mode = 0
        THEN FourStepSequence(reset)
        ELSE FiveStepSequence(reset)

\* the sample run_to_cycle stores when one is due
GenerateSample(a) ==
    IF a.current_cycle >= a.next_sample_at
    THEN [a EXCEPT !.last_sample =
                       [index |-> a.buffer_index,
                        value |-> (ApuPulseOutput(a.pulse_1) - 8) * 512
                                  + (ApuPulseOutput(a.pulse_2) - 8) * 512,
                        pulse_1 |-> ApuPulseOutput(a.pulse_1),
                        pulse_2 |-> ApuPulseOutput(a.pulse_2)],
                   !.buffer_index = (@ + 1) % 4096,
                   !.generated_samples = @ + 1,
                   !.next_sample_at =
                       ((a.generated_samples + 2) * a.cpu_clock_rate) \div a.sample_rate]
    ELSE a

\* one pass of the loop of run_to_cycle
RunOneApuCycle(w) ==
    LET sequenced == ClockFrameSequencer(w)
        timed == IF sequenced.a.current_cycle % 2 = 0
                 THEN [sequenced EXCEPT !.a.pulse_1 = ApuPulseClock(@),
                                        !.a.pulse_2 = ApuPulseClock(@)]
                 ELSE sequenced
    IN  [timed EXCEPT !.a = [GenerateSample(@) EXCEPT !.current_cycle = @ + 1]]

RECURSIVE RunToCycle(_, _)
RunToCycle(w, target_cycle) ==
    IF w.a.current_cycle < target_cycle
    THEN RunToCycle(RunOneApuCycle(w), target_cycle)
    ELSE w

-----------------------------------------------------------------------------
(* The pulse channel of apu/pulse.rs.  Its name, its debug switch, its     *)
(* output buffers and its filter take no part in what it computes and are  *)
(* left out.                                                               *)

\* VolumeEnvelopeState: the configured volume or the decay level
EnvelopeNew == [constant_volume |-> FALSE, volume_register |-> 0, decay |-> 0]

EnvelopeCurrentVolume(e) ==
    IF e.constant_volume THEN e.volume_register ELSE e.decay

LengthCounterNew == [length |-> 0, halt_flag |-> FALSE, channel_enabled |-> FALSE]

PulseNew(sweep_ones_compliment) ==
    [last_edge |-> FALSE,
     envelope |-> EnvelopeNew,
     length_counter |-> LengthCounterNew,
     sweep_enabled |-> FALSE,
     sweep_period |-> 0,
     sweep_divider |-> 0,
     sweep_negate |-> FALSE,
     sweep_shift |-> 0,
     sweep_reload |-> FALSE,
     sweep_ones_compliment |-> sweep_ones_compliment,
     duty |-> 1,
     sequence_counter |-> 0,
     period_initial |-> 0,
     period_current |-> 0,
     cpu_clock_rate |-> 0]     \* the rate handed to new

PulseClock(p) ==
    IF p.period_current = 0
    THEN [p EXCEPT !.period_current = p.period_initial,
                   !.sequence_counter = IF @ = 0 THEN 7 ELSE @ - 1,
                   !.last_edge = @ \/ (p.sequence_counter = 0)]
    ELSE [p EXCEPT !.period_current = @ - 1]

\* the target without the special case of shift 0 or period 0
PulseTargetPeriodNoSpecialCase(p) ==
    LET change_amount == Shr(p.period_initial, p.sweep_shift)
    IN  IF p.sweep_negate
        THEN IF p.sweep_ones_compliment
             THEN WrappingSub16(WrappingSub16(p.period_initial, change_amount), 1)
             ELSE WrappingSub16(p.period_initial, change_amount)
        ELSE (p.period_initial + change_amount) % 65536

PulseTargetPeriod(p) ==
    LET change_amount == Shr(p.period_initial, p.sweep_shift)
    IN  IF p.sweep_negate
        THEN IF p.sweep_ones_compliment
             THEN IF p.sweep_shift = 0 \/ p.period_initial = 0
                  THEN 0
                  ELSE WrappingSub16(WrappingSub16(p.period_initial, change_amount), 1)
             ELSE WrappingSub16(p.period_initial, change_amount)
        ELSE (p.period_initial + change_amount) % 65536

\* the arithmetic of target_period leaves the range of u16
PulseTargetOverflows(p) ==
    LET change_amount == Shr(p.period_initial, p.sweep_shift)
    IN  IF p.sweep_negate
        THEN IF p.sweep_ones_compliment
             THEN ~(p.sweep_shift = 0 \/ p.period_initial = 0)
                  /\ p.period_initial - change_amount - 1 < 0
             ELSE p.period_initial - change_amount < 0
        ELSE p.period_initial + change_amount > 65535

PulseOutput(p) ==
    IF p.length_counter.length > 0
    THEN IF PulseTargetPeriod(p) > 2047 \/ p.period_initial < 8
         THEN 0
         ELSE Bit(p.duty, p.sequence_counter) * EnvelopeCurrentVolume(p.envelope)
    ELSE 0

\* the sweep that takes the target whatever the divider holds
PulseUpdateSweepAnyDivider(p) ==
    LET target_period == PulseTargetPeriod(p)
        swept == IF /\ p.sweep_enabled
                    /\ p.sweep_shift # 0
                    /\ target_period <= 2047
                    /\ p.period_initial >= 8
                 THEN [p EXCEPT !.period_initial = target_period]
                 ELSE p
    IN  IF p.sweep_divider = 0 \/ p.sweep_reload
        THEN [swept EXCEPT !.sweep_divider = p.sweep_period, !.sweep_reload = FALSE]
        ELSE [swept EXCEPT !.sweep_divider = @ - 1]

PulseUpdateSweep(p) ==
    LET target_period == PulseTargetPeriod(p)
        swept == IF /\ p.sweep_divider = 0
                    /\ p.sweep_enabled
                    /\ p.sweep_shift # 0
                    /\ target_period <= 2047
                    /\ p.period_initial >= 8
                 THEN [p EXCEPT !.period_initial = target_period]
                 ELSE p
    IN  IF p.sweep_divider = 0 \/ p.sweep_reload
        THEN [swept EXCEPT !.sweep_divider = p.sweep_period, !.sweep_reload = FALSE]
        ELSE [swept EXCEPT !.sweep_divider = @ - 1]

-----------------------------------------------------------------------------
(* The delta modulation channel of apu/dmc.rs.  Its name, its debug switch *)
(* and its output ring buffer are left out.  The mapper's CPU side answers *)
(* Some(byte) or None (NoByte) to read_cpu; the cartridge holds one byte   *)
(* at every address or none.  The history counts the clocks and the sample *)
(* fetches.                                                                *)

DmcNew ==
    [looping |-> FALSE,
     period_initial |-> 428,
     period_current |-> 0,
     output_level |-> 0,
     starting_address |-> 0,
     sample_length |-> 0,
     current_address |-> 0,
     sample_buffer |-> 0,
     shift_register |-> 0,
     sample_buffer_empty |-> TRUE,
     bits_remaining |-> 8,
     bytes_remaining |-> 0,
     silence_flag |-> FALSE,
     interrupt_enabled |-> TRUE,
     interrupt_flag |-> FALSE,
     rdy_line |-> FALSE,
     rdy_delay |-> 0]

MapperReadCpu(b, address) == b.prg

\* the address handed to the mapper without the bit that keeps it in
\* 0x8000..0xFFFF
DmcSampleAddressUnmasked(d) == d.current_address

\* the address read_next_sample hands to the mapper
DmcSampleAddress(d) == BitOr(32768, BitAnd(d.current_address, 32767))

\* the fetch that raises the interrupt with one byte still to read
DmcReadNextSampleEarlyFlag(w) ==
    LET d == w.d
        byte == MapperReadCpu(w.b, DmcSampleAddress(d))
        d1 == [d EXCEPT !.sample_buffer = IF byte # NoByte THEN byte ELSE 0,
                        !.current_address = (@ + 1) % 65536,
                        !.bytes_remaining = @ - 1]
        d2 == IF d1.bytes_remaining <= 1
              THEN IF d1.looping
                   THEN [d1 EXCEPT !.current_address = d1.starting_address,
                                   !.bytes_remaining = d1.sample_length]
                   ELSE IF d1.interrupt_enabled
                        THEN [d1 EXCEPT !.interrupt_flag = TRUE]
                        ELSE d1
              ELSE d1
    IN  [d |-> [d2 EXCEPT !.sample_buffer_empty = FALSE,
                          !.rdy_line = FALSE,
                          !.rdy_delay = 0],
         b |-> [w.b EXCEPT !.reads = @ + 1,
                           !.last_address = DmcSampleAddress(d),
                           !.answered = byte # NoByte,
                           !.fetched = TRUE]]

DmcReadNextSample(w) ==
    LET d == w.d
        byte == MapperReadCpu(w.b, DmcSampleAddress(d))
        d1 == [d EXCEPT !.sample_buffer = IF byte # NoByte THEN byte ELSE 0,
                        !.current_address = (@ + 1) % 65536,
                        !.bytes_remaining = @ - 1]
        d2 == IF d1.bytes_remaining = 0
              THEN IF d1.looping
                   THEN [d1 EXCEPT !.current_address = d1.starting_address,
                                   !.bytes_remaining = d1.sample_length]
                   ELSE IF d1.interrupt_enabled
                        THEN [d1 EXCEPT !.interrupt_flag = TRUE]
                        ELSE d1
              ELSE d1
    IN  [d |-> [d2 EXCEPT !.sample_buffer_empty = FALSE,
                          !.rdy_line = FALSE,
                          !.rdy_delay = 0],
         b |-> [w.b EXCEPT !.reads = @ + 1,
                           !.last_address = DmcSampleAddress(d),
                           !.answered = byte # NoByte,
                           !.fetched = TRUE]]

DmcBeginOutputCycle(d) ==
    IF d.sample_buffer_empty
    THEN [d EXCEPT !.bits_remaining = 8, !.silence_flag = TRUE]
    ELSE [d EXCEPT !.bits_remaining = 8,
                   !.silence_flag = FALSE,
                   !.shift_register = d.sample_buffer,
                   !.sample_buffer_empty = TRUE]

\* the output unit that steps up from any level below 127
DmcUpdateOutputUnitLooseClamp(d) ==
    LET target_output ==
            IF Bit(d.shift_register, 0) = 0
            THEN IF d.output_level >= 2 THEN d.output_level - 2 ELSE d.output_level
            ELSE IF d.output_level <= 126 THEN d.output_level + 2 ELSE d.output_level
        d1 == [d EXCEPT !.output_level = IF d.silence_flag THEN @ ELSE target_output,
                        !.shift_register = Shr(@, 1),
                        !.bits_remaining = @ - 1]
    IN  IF d1.bits_remaining = 0 THEN DmcBeginOutputCycle(d1) ELSE d1

\* bits_remaining is 1..8 on entry: begin_output_cycle refills it at 0
DmcUpdateOutputUnit(d) ==
    LET target_output ==
            IF Bit(d.shift_register, 0) = 0
            THEN IF d.output_level >= 2 THEN d.output_level - 2 ELSE d.output_level
            ELSE IF d.output_level <= 125 THEN d.output_level + 2 ELSE d.output_level
        d1 == [d EXCEPT !.output_level = IF d.silence_flag THEN @ ELSE target_output,
                        !.shift_register = Shr(@, 1),
                        !.bits_remaining = @ - 1]
    IN  IF d1.bits_remaining = 0 THEN DmcBeginOutputCycle(d1) ELSE d1

\* the clock that fetches after four clocks of delay
DmcClockSlowFetch(w) ==
    LET d1 == IF w.d.period_current = 0
              THEN DmcUpdateOutputUnit([w.d EXCEPT !.period_current = w.d.period_initial - 1])
              ELSE [w.d EXCEPT !.period_current = @ - 1]
        starved == d1.sample_buffer_empty /\ d1.bytes_remaining > 0
        b1 == [w.b EXCEPT !.clocks = @ + 1,
                          !.fetched = FALSE,
                          !.waited = IF ~starved THEN 0
                                     ELSE IF w.b.fetched THEN 1 ELSE @ + 1]
    IN  IF starved
        THEN LET d2 == [d1 EXCEPT !.rdy_line = TRUE, !.rdy_delay = @ + 1]
             IN  IF d2.rdy_delay > 4
                 THEN DmcReadNextSample([d |-> d2, b |-> b1])
                 ELSE [d |-> d2, b |-> b1]
        ELSE [d |-> [d1 EXCEPT !.rdy_line = FALSE, !.rdy_delay = 0], b |-> b1]

\* clock, with period_initial > 0.  The history counts the clock, and in
\* waited the clocks in a row, since the last fetch, that found the sample
\* buffer empty with bytes remaining
DmcClock(w) ==
    LET d1 == IF w.d.period_current = 0
              THEN DmcUpdateOutputUnit([w.d EXCEPT !.period_current = w.d.period_initial - 1])
              ELSE [w.d EXCEPT !.period_current = @ - 1]
        starved == d1.sample_buffer_empty /\ d1.bytes_remaining > 0
        b1 == [w.b EXCEPT !.clocks = @ + 1,
                          !.fetched = FALSE,
                          !.waited = IF ~starved THEN 0
                                     ELSE IF w.b.fetched THEN 1 ELSE @ + 1]
    IN  IF starved
        THEN LET d2 == [d1 EXCEPT !.rdy_line = TRUE, !.rdy_delay = @ + 1]
             IN  IF d2.rdy_delay > 2
                 THEN DmcReadNextSample([d |-> d2, b |-> b1])
                 ELSE [d |-> d2, b |-> b1]
        ELSE [d |-> [d1 EXCEPT !.rdy_line = FALSE, !.rdy_delay = 0], b |-> b1]

-----------------------------------------------------------------------------
(* LengthCounterState of apu/length_counter.rs.                            *)

LengthTable ==
    <<10, 254, 20, 2, 40, 4, 80, 6, 160, 8, 60, 10, 14, 12, 26, 14,
      12, 16, 24, 18, 48, 20, 96, 22, 192, 24, 72, 26, 16, 28, 32, 30>>

\* the clock that counts down a halted counter too
LengthCounterClockIgnoringHalt(l) ==
    IF l.channel_enabled
    THEN IF l.length > 0 THEN [l EXCEPT !.length = @ - 1] ELSE l
    ELSE [l EXCEPT !.length = 0]

LengthCounterClock(l) ==
    IF l.channel_enabled
    THEN IF l.length > 0 /\ ~l.halt_flag THEN [l EXCEPT !.length = @ - 1] ELSE l
    ELSE [l EXCEPT !.length = 0]

\* set_length, with index in 0..31
LengthCounterSetLength(l, index) ==
    IF l.channel_enabled
    THEN [l EXCEPT !.length = LengthTable[index + 1]]
    ELSE [l EXCEPT !.length = 0]

-----------------------------------------------------------------------------
(* Saved states: save_state appends an object's fields to a byte buffer    *)
(* and load_state takes them off its end.  The helpers of save_load, the   *)
(* envelope and the components NesState nests are not part of the sources  *)
(* at hand: they are modelled as the specification describes a saved       *)
(* state, a flat byte stream of every field.  Numbers stay below 2^31.     *)

\* to_le_bytes: the n bytes of v, the low byte first
RECURSIVE LeBytes(_, _)
LeBytes(v, n) ==
    IF n = 0 THEN <<>> ELSE <<v % 256>> \o LeBytes(v \div 256, n - 1)

\* from_le_bytes
RECURSIVE FromLeBytes(_)
FromLeBytes(bytes) ==
    IF bytes = <<>> THEN 0 ELSE bytes[1] + 256 * FromLeBytes(Tail(bytes))

BoolByte(b) == IF b THEN 1 ELSE 0

DropLast(buff, n) == SubSeq(buff, 1, Len(buff) - n)

LastBytes(buff, n) == SubSeq(buff, Len(buff) - n + 1, Len(buff))

\* Vec::split_off(len - n) and, for n = 1, Vec::pop().unwrap(): the last n
\* bytes leave the buffer; on a buffer of fewer than n bytes the subtraction
\* underflows or the unwrap meets None, and the program panics
TakeLast(r, n) ==
    IF r.ok /\ Len(r.data) >= n
    THEN [data |-> DropLast(r.data, n), took |-> LastBytes(r.data, n), ok |-> TRUE]
    ELSE [data |-> r.data, took |-> LeBytes(0, n), ok |-> FALSE]

\* save_u8, save_bool, save_u32, save_u64 and the loads that undo them, on
\* a buffer that holds the bytes
SaveU8(buff, v) == Append(buff, v)

SaveBool(buff, b) == Append(buff, BoolByte(b))

SaveU32(buff, v) == buff \o LeBytes(v, 4)

SaveU64(buff, v) == buff \o LeBytes(v, 8)

LoadU8(buff) == [value |-> buff[Len(buff)], buff |-> DropLast(buff, 1)]

LoadBool(buff) == [value |-> buff[Len(buff)] # 0, buff |-> DropLast(buff, 1)]

LoadU32(buff) == [value |-> FromLeBytes(LastBytes(buff, 4)), buff |-> DropLast(buff, 4)]

LoadU64(buff) == [value |-> FromLeBytes(LastBytes(buff, 8)), buff |-> DropLast(buff, 8)]

\* LengthCounterState::save_state
LengthCounterSaveState(l, buff) ==
    SaveBool(SaveBool(SaveU8(buff, l.length), l.halt_flag), l.channel_enabled)

\* LengthCounterState::load_state
LengthCounterLoadState(l, buff) ==
    LET enabled == LoadBool(buff)
        halt == LoadBool(enabled.buff)
        length == LoadU8(halt.buff)
    IN  [state |-> [l EXCEPT !.channel_enabled = enabled.value,
                             !.halt_flag = halt.value,
                             !.length = length.value],
         buff |-> length.buff]

\* VolumeEnvelopeState::save_state and load_state
EnvelopeSaveState(e, buff) ==
    SaveU8(SaveU8(SaveBool(buff, e.constant_volume), e.volume_register), e.decay)

EnvelopeLoadState(e, buff) ==
    LET decay == LoadU8(buff)
        volume == LoadU8(decay.buff)
        constant == LoadBool(volume.buff)
    IN  [state |-> [e EXCEPT !.decay = decay.value,
                             !.volume_register = volume.value,
                             !.constant_volume = constant.value],
         buff |-> constant.buff]

\* PulseChannelState::save_state
PulseSaveState(p, data) ==
    LengthCounterSaveState(p.length_counter, EnvelopeSaveState(p.envelope, data))
        \o <<BoolByte(p.sweep_enabled), p.sweep_period, p.sweep_divider,
             BoolByte(p.sweep_negate), p.sweep_shift, BoolByte(p.sweep_reload),
             BoolByte(p.sweep_ones_compliment), p.duty, p.sequence_counter>>
        \o LeBytes(p.period_initial, 2)
        \o LeBytes(p.period_current, 2)
        \o LeBytes(p.cpu_clock_rate, 8)

\* the channel's fields loaded from what was taken off the buffer: rate,
\* current, initial are the bytes of the three numbers, r the nine single
\* bytes taken after them, in the order taken
PulseFieldsLoaded(p, rate, current, initial, r) ==
    IF ~r[9].ok
    THEN [state |-> p, data |-> r[9].data, aborted |-> TRUE]
    ELSE LET l == LengthCounterLoadState(p.length_counter, r[9].data)
             e == EnvelopeLoadState(p.envelope, l.buff)
         IN  [state |-> [p EXCEPT !.cpu_clock_rate = FromLeBytes(rate.took),
                                  !.period_current = FromLeBytes(current.took),
                                  !.period_initial = FromLeBytes(initial.took),
                                  !.sequence_counter = r[1].took[1],
                                  !.duty = r[2].took[1],
                                  !.sweep_ones_compliment = r[3].took[1] # 0,
                                  !.sweep_reload = r[4].took[1] # 0,
                                  !.sweep_shift = r[5].took[1],
                                  !.sweep_negate = r[6].took[1] # 0,
                                  !.sweep_divider = r[7].took[1],
                                  !.sweep_period = r[8].took[1],
                                  !.sweep_enabled = r[9].took[1] # 0,
                                  !.length_counter = l.state,
                                  !.envelope = e.state],
              data |-> e.buff,
              aborted |-> FALSE]

\* n single bytes taken off the buffer one after another, r being the
\* buffer before them: what each pop left and took
RECURSIVE PopBytes(_, _)
PopBytes(r, n) ==
    IF n = 0 THEN <<>>
    ELSE LET r1 == TakeLast(r, 1) IN <<r1>> \o PopBytes(r1, n - 1)

\* load_state with period_initial taken off the buffer before period_current
PulseLoadStatePeriodsSwapped(p, data) ==
    LET rate == TakeLast([data |-> data, took |-> <<>>, ok |-> TRUE], 8)
        initial == TakeLast(rate, 2)
        current == TakeLast(initial, 2)
    IN  PulseFieldsLoaded(p, rate, current, initial, PopBytes(current, 9))

\* PulseChannelState::load_state; a panic ends the program, whatever was
\* loaded before it
PulseLoadState(p, data) ==
    LET rate == TakeLast([data |-> data, took |-> <<>>, ok |-> TRUE], 8)
        current == TakeLast(rate, 2)
        initial == TakeLast(current, 2)
    IN  PulseFieldsLoaded(p, rate, current, initial, PopBytes(initial, 9))

\* the serialized fields of NesState at power-on; apu, cpu, memory, ppu,
\* registers and mapper stand for the bytes those components save
NesFieldsNew ==
    [apu |-> <<0, 0>>, cpu |-> <<0>>, memory |-> <<0, 0>>, ppu |-> <<0>>,
     registers |-> <<0>>, master_clock |-> 0, p1_input |-> 0, p1_data |-> 0,
     p2_input |-> 0, p2_data |-> 0, input_latch |-> FALSE, mapper |-> <<0>>,
     last_frame |-> 0]

\* a nested component's save_state and load_state: its bytes, appended and
\* taken back
SaveComponent(buff, image) == buff \o image

LoadComponent(buff, image) ==
    [value |-> LastBytes(buff, Len(image)), buff |-> DropLast(buff, Len(image))]

\* NesState::save_state
NesSaveState(n) ==
    LET b1 == SaveComponent(<<>>, n.apu)
        b2 == SaveComponent(b1, n.cpu)
        b3 == SaveComponent(b2, n.memory)
        b4 == SaveComponent(b3, n.ppu)
        b5 == SaveComponent(b4, n.registers)
        b6 == SaveU64(b5, n.master_clock)
        b7 == SaveU8(b6, n.p1_input)
        b8 == SaveU8(b7, n.p1_data)
        b9 == SaveU8(b8, n.p2_input)
        b10 == SaveU8(b9, n.p2_data)
        b11 == SaveBool(b10, n.input_latch)
        b12 == SaveComponent(b11, n.mapper)
    IN  SaveU32(b12, n.last_frame)

\* NesState::load_state
NesLoadState(n, buff) ==
    LET last_frame == LoadU32(buff)
        mapper == LoadComponent(last_frame.buff, n.mapper)
        input_latch == LoadBool(mapper.buff)
        p2_data == LoadU8(input_latch.buff)
        p2_input == LoadU8(p2_data.buff)
        p1_data == LoadU8(p2_input.buff)
        p1_input == LoadU8(p1_data.buff)
        master_clock == LoadU64(p1_input.buff)
        registers == LoadComponent(master_clock.buff, n.registers)
        ppu == LoadComponent(registers.buff, n.ppu)
        memory == LoadComponent(ppu.buff, n.memory)
        cpu == LoadComponent(memory.buff, n.cpu)
        apu_image == LoadComponent(cpu.buff, n.apu)
    IN  [state |-> [apu |-> apu_image.value, cpu |-> cpu.value,
                    memory |-> memory.value, ppu |-> ppu.value,
                    registers |-> registers.value,
                    master_clock |-> master_clock.value,
                    p1_input |-> p1_input.value, p1_data |-> p1_data.value,
                    p2_input |-> p2_input.value, p2_data |-> p2_data.value,
                    input_latch |-> input_latch.value, mapper |-> mapper.value,
                    last_frame |-> last_frame.value],
         buff |-> apu_image.buff]

-----------------------------------------------------------------------------
(* Bounds and the inputs the model draws. *)

MaxCycles == 40
MaxTicks == 350
MaxFrames == 2
MaxWrites == 2
MaxApuCycles == 37300
MaxStatusTicks == 7200
MaxSpriteTicks == 3
MaxScrollTicks == 56
MaxTileTicks == 277
MaxColumnTicks == 342
MaxDataReads == 2
MaxRunCalls == 2
MaxShortSteps == 1
MaxPulseCalls == 2
MaxDmcClocks == 30000
MaxLengthCalls == 3

World == [n |-> nes, o |-> obs]

\* the stores the CPU may make in a micro-step: one to the mask register in
\* the first cycle of a run, none afterwards
CpuWrites(w) ==
    IF w.o.cycles = 0
    THEN {NoWrite, [reg |-> "mask", value |-> 30]}
    ELSE {NoWrite}

CpuInputs(w) == [done : BOOLEAN, write : CpuWrites(w)]

StepInputs(w) == [n : {1, 2, 3, StepLoopLimit + 2}, write : CpuWrites(w)]

\* The power-on PPU after the idle ticks (rendering disabled, the status
\* register read at the end) that bring it to dot d of scanline s of frame f.
IdlePlot(f, s, d) ==
    IF s <= 239 /\ d >= 2
    THEN [x |-> (IF d - 2 > 255 THEN 255 ELSE d - 2), y |-> s, pixel |-> 12]
    ELSE IF s >= 1 /\ s <= 239 THEN [x |-> 255, y |-> s - 1, pixel |-> 12]
    ELSE IF s >= 240 \/ f > 0 THEN [x |-> 255, y |-> 239, pixel |-> 12]
    ELSE PpuNew.plot

PpuIdleAt(f, s, d) ==
    [PpuNew EXCEPT !.current_frame = f,
                   !.current_scanline = s,
                   !.current_scanline_cycle = d,
                   !.plot = IdlePlot(f, s, d)]

NesIdleAt(f, s, d) ==
    [NesNew EXCEPT !.ppu = PpuIdleAt(f, s, d),
                   !.last_frame = f,
                   !.event_scanline = s,
                   !.event_cycle = d]

ObsIdleAt(f, s, d) ==
    [ObsNew EXCEPT !.frame_ticks = s * (LastDot + 1) + d,
                   !.frame_on = (s = 0 /\ d = 0)]

OpenBusCart == [chr |-> NoByte, nt |-> NoByte]
SolidCart == [chr |-> 255, nt |-> 255]

\* primary OAM: sprite 0 at (x0, y0), tile 0, no attributes; sprites 1..63 parked
OamImage(y0, x0) ==
    [i \in 0..255 |->
        IF i = 0 THEN y0
        ELSE IF i = 3 THEN x0
        ELSE IF i % 4 = 0 THEN 240
        ELSE 0]

\* primary OAM: sprite s at row ys[s], its tile, attributes and column told
\* apart by s
OamLayout(ys) ==
    [i \in 0..255 |->
        LET s == i \div 4
        IN  CASE i % 4 = 0 -> ys[s]
              [] i % 4 = 1 -> s + 1
              [] i % 4 = 2 -> s % 4
              [] OTHER -> (s * 4) % 256]

\* count sprites at row y0 or y0 + 4 by turns: sprite first and every step-th
\* after it; the other sprites at row elsewhere
SpriteRows(first, step, count, y0, elsewhere) ==
    [s \in 0..(OamSprites - 1) |->
        IF s >= first /\ (s - first) % step = 0 /\ (s - first) \div step < count
        THEN y0 + (((s - first) \div step) % 2) * 4
        ELSE elsewhere]

NoPpuWrite == [address |-> 0, data |-> 0, count |-> 0]

\* target_period not called yet
NoTarget ==
    [called |-> FALSE, pulse_rs |-> 0, pulse_rs_overflowed |-> FALSE,
     apu_rs |-> 0, apu_rs_overflowed |-> FALSE]

\* no pulse output recorded yet
NoOutput == [recorded |-> FALSE, channel |-> PulseNew(TRUE), value |-> 0]

SoundNew ==
    [program |-> <<>>,            \* the register stores the CPU will make: at, address, data
     writes |-> 0,                \* how many of them were made
     frame_writes |-> 0,          \* stores to 0x4017 among them
     write_cycle |-> 0,           \* current_cycle at the last store to 0x4017
     since_write |-> 0,           \* sequencer clocks since that store
     overflow_checks |-> FALSE,   \* the build panics on arithmetic overflow
     panicked |-> FALSE,
     clock |-> NoSequencerClock,  \* what the last clock_frame_sequencer call did
     calls |-> 0,                 \* pulse channel operations called
     swept |-> FALSE,             \* the last of them was update_sweep
     target |-> NoTarget,         \* what the last target_period calls did
     length_call |-> "none",      \* the length counter operation called last,
     length_index |-> 0,          \* and the index handed to set_length
     output |-> NoOutput]         \* the channel output() was last recorded of, and its value

AudioAtPowerOn ==
    /\ apu = ApuNew
    /\ pulse = PulseNew(TRUE)
    /\ sound = SoundNew

BusNew ==
    [prg |-> NoByte,           \* what the mapper answers to read_cpu
     open_bus |-> 0,           \* the last byte seen on the CPU bus
     clocks |-> 0,             \* DmcState::clock calls
     reads |-> 0,              \* read_next_sample calls
     last_address |-> 0,       \* the address the last of them read
     answered |-> FALSE,       \* the mapper answered it with Some(byte)
     fetched |-> FALSE,        \* the last clock called read_next_sample
     waited |-> 0]

DmcAtPowerOn ==
    /\ dmc = DmcNew
    /\ bus = BusNew

\* nothing saved, nothing loaded
SaveNew ==
    [kind |-> "none",          \* whose save_state and load_state are called
     source |-> <<>>,          \* the object saved
     prefix |-> <<>>,          \* the buffer before save_state
     buff |-> <<>>,            \* the buffer
     target |-> <<>>,          \* the object loaded into
     done |-> "none",          \* "none", "saved", "loaded"
     cut |-> FALSE,            \* the buffer was truncated before load_state
     aborted |-> FALSE,        \* load_state panicked
     returned |-> "none"]      \* what load_state returned to its caller

\* no range test made
RangeNew ==
    [scanline |-> 0, y |-> 0, sprite_size |-> 8, overflow_checks |-> FALSE,
     tested |-> FALSE, in_range |-> FALSE, overflowed |-> FALSE, panicked |-> FALSE]

NothingSavedOrTested ==
    /\ save = SaveNew
    /\ range = RangeNew

ConsoleAtPowerOn ==
    /\ nes = NesNew
    /\ obs = ObsNew
    /\ cart = OpenBusCart
    /\ pc = "idle"
    /\ old_scanline = 0
    /\ last_write = NoPpuWrite

-----------------------------------------------------------------------------
(* The console driven through NesState's driver operations. *)

DriverStarts ==
    {<<0, 0, 0>>, <<1, 261, 339>>, <<0, 261, 339>>, <<0, 241, 300>>, <<0, 242, 300>>}

Init ==
    /\ \E st \in DriverStarts :
          /\ nes = NesIdleAt(st[1], st[2], st[3])
          /\ obs = ObsIdleAt(st[1], st[2], st[3])
    /\ cart = OpenBusCart
    /\ pc = "idle"
    /\ old_scanline = 0
    /\ last_write = NoPpuWrite
    /\ AudioAtPowerOn
    /\ DmcAtPowerOn
    /\ NothingSavedOrTested

SetWorld(w) == nes' = w.n /\ obs' = w.o

\* run_until_vblank without its second loop
VblankPcAfterFirstLoop(phase, w) ==
    IF w.n.ppu.current_scanline = 242 THEN "vblank_leave" ELSE "idle"

\* run_until_vblank: where the two loops stand after a step
VblankPcAfter(phase, w) ==
    IF phase = "vblank_leave"
    THEN IF w.n.ppu.current_scanline = 242 THEN "vblank_leave" ELSE "vblank_wait"
    ELSE IF w.n.ppu.current_scanline # 242 THEN "vblank_wait" ELSE "idle"

Cycle ==
    /\ pc = "idle"
    /\ obs.cycles < MaxCycles
    /\ \E in \in CpuInputs(World) : SetWorld(NesCycle(World, cart, in))
    /\ UNCHANGED <<cart, pc, old_scanline, last_write, apu, pulse, sound, dmc, bus, save, range>>

Step ==
    /\ pc = "idle"
    /\ obs.cycles < MaxCycles
    /\ \E sin \in StepInputs(World) : SetWorld(NesStep(World, cart, sin))
    /\ UNCHANGED <<cart, pc, old_scanline, last_write, apu, pulse, sound, dmc, bus, save, range>>

\* run_until_hblank: the call and the first pass of its loop
RunUntilHblank ==
    /\ pc = "idle"
    /\ obs.cycles < MaxCycles
    /\ \E sin \in StepInputs(World) :
          \E w \in {NesStep(World, cart, sin)} :
              /\ SetWorld(w)
              /\ old_scanline' = nes.ppu.current_scanline
              /\ pc' = IF nes.ppu.current_scanline = w.n.ppu.current_scanline
                       THEN "hblank" ELSE "idle"
    /\ UNCHANGED <<cart, last_write, apu, pulse, sound, dmc, bus, save, range>>

\* run_until_hblank: a further pass of its loop
RunUntilHblankLoop ==
    /\ pc = "hblank"
    /\ obs.cycles < MaxCycles
    /\ \E sin \in StepInputs(World) :
          \E w \in {NesStep(World, cart, sin)} :
              /\ SetWorld(w)
              /\ pc' = IF old_scanline = w.n.ppu.current_scanline
                       THEN "hblank" ELSE "idle"
    /\ UNCHANGED <<cart, old_scanline, last_write, apu, pulse, sound, dmc, bus, save, range>>

\* run_until_vblank: the call and the first pass of whichever loop runs first
RunUntilVblank ==
    /\ pc = "idle"
    /\ obs.cycles < MaxCycles
    /\ \E sin \in StepInputs(World) :
          \E w \in {NesStep(World, cart, sin)} :
              /\ SetWorld(w)
              /\ pc' = VblankPcAfter(IF nes.ppu.current_scanline = 242
                                     THEN "vblank_leave" ELSE "vblank_wait", w)
    /\ UNCHANGED <<cart, old_scanline, last_write, apu, pulse, sound, dmc, bus, save, range>>

\* run_until_vblank: a further pass of the loop it is in
RunUntilVblankLoop ==
    /\ pc \in {"vblank_leave", "vblank_wait"}
    /\ obs.cycles < MaxCycles
    /\ \E sin \in StepInputs(World) :
          \E w \in {NesStep(World, cart, sin)} :
              /\ SetWorld(w)
              /\ pc' = VblankPcAfter(pc, w)
    /\ UNCHANGED <<cart, old_scanline, last_write, apu, pulse, sound, dmc, bus, save, range>>

Next ==
    \/ Cycle
    \/ Step
    \/ RunUntilHblank
    \/ RunUntilHblankLoop
    \/ RunUntilVblank
    \/ RunUntilVblankLoop

Spec == Init /\ [][Next]_vars

-----------------------------------------------------------------------------
(* run_until_hblank and run_until_vblank called one after the other, each  *)
(* call left to return; every pass of their loops is scheduled.            *)

\* the cycle that ends the instruction of a step(): none, so that the step
\* runs its 11 cycles, or for a bounded number of steps the first
RunStepInputs(w) ==
    [n : {StepLoopLimit + 2} \cup (IF w.o.short_steps < MaxShortSteps THEN {1} ELSE {}),
     write : {NoWrite}]

InitRun ==
    /\ nes = NesIdleAt(0, 241, 300)
    /\ obs = ObsIdleAt(0, 241, 300)
    /\ cart = OpenBusCart
    /\ pc = "idle"
    /\ old_scanline = 0
    /\ last_write = NoPpuWrite
    /\ AudioAtPowerOn
    /\ DmcAtPowerOn
    /\ NothingSavedOrTested

\* the history of calls after a pass that leaves the PPU and the history as
\* w (the sub-operations of its cycles are not kept)
RunObserved(kind, w, sin) ==
    LET o == [w.o EXCEPT !.short_steps = IF sin.n = 1 THEN @ + 1 ELSE @,
                         !.cycle_log = <<>>]
    IN  IF pc = "idle"
        THEN [o EXCEPT !.run_calls = @ + 1,
                       !.prev_kind = obs.run_kind,
                       !.run_kind = kind,
                       !.run_frame = nes.ppu.current_frame]
        ELSE o

\* run_until_hblank: the call with the first pass of its loop, or a further pass
RunUntilHblankPass ==
    /\ pc \in {"idle", "hblank"}
    /\ pc = "idle" => obs.run_calls < MaxRunCalls
    /\ \E sin \in RunStepInputs(World) :
          \E w \in {NesStep(World, cart, sin)} :
              /\ nes' = w.n
              /\ obs' = RunObserved("hblank", w, sin)
              /\ old_scanline' = IF pc = "idle" THEN nes.ppu.current_scanline
                                 ELSE old_scanline
              /\ pc' = IF old_scanline' = w.n.ppu.current_scanline
                       THEN "hblank" ELSE "idle"
    /\ UNCHANGED <<cart, last_write, apu, pulse, sound, dmc, bus, save, range>>

\* run_until_vblank: the call with the first pass of whichever loop runs
\* first, or a further pass of the loop it is in
RunUntilVblankPass ==
    /\ pc \in {"idle", "vblank_leave", "vblank_wait"}
    /\ pc = "idle" => obs.run_calls < MaxRunCalls
    /\ \E sin \in RunStepInputs(World) :
          \E w \in {NesStep(World, cart, sin)} :
              /\ nes' = w.n
              /\ obs' = RunObserved("vblank", w, sin)
              /\ pc' = VblankPcAfter(IF pc # "idle" THEN pc
                                     ELSE IF nes.ppu.current_scanline = 242
                                          THEN "vblank_leave" ELSE "vblank_wait", w)
    /\ UNCHANGED <<cart, old_scanline, last_write, apu, pulse, sound, dmc, bus, save, range>>

NextRun ==
    \/ RunUntilHblankPass
    \/ RunUntilVblankPass

\* a loop that can make a pass makes it
SpecRun == InitRun /\ [][NextRun]_vars /\ WF_vars(NextRun)

-----------------------------------------------------------------------------
(* The PPU ticked dot by dot (nudge_ppu_alignment), with the CPU storing to *)
(* the mask register between ticks.                                         *)

PpuScenarios ==
    ({<<0, 10, 250>>} \X {30, 24, 26, 28} \X {<<10, 3>>, <<10, 255>>} \X {SolidCart})
    \cup ({<<0, 17, 250>>} \X {30} \X {<<10, 3>>} \X {SolidCart})
    \cup ({<<0, 261, 250>>, <<1, 261, 250>>} \X {0, 30} \X {<<10, 3>>}
              \X {OpenBusCart, SolidCart})
    \cup ({<<0, 240, 330>>} \X {0, 30} \X {<<10, 3>>} \X {OpenBusCart})

InitPpu ==
    /\ \E sc \in PpuScenarios :
          /\ nes = [NesIdleAt(sc[1][1], sc[1][2], sc[1][3]) EXCEPT
                       !.ppu.mask = sc[2],
                       !.ppu.oam = OamImage(sc[3][1], sc[3][2])]
          /\ obs = ObsIdleAt(sc[1][1], sc[1][2], sc[1][3])
          /\ cart = sc[4]
    /\ pc = "idle"
    /\ old_scanline = 0
    /\ last_write = NoPpuWrite
    /\ AudioAtPowerOn
    /\ DmcAtPowerOn
    /\ NothingSavedOrTested

NudgePpuAlignment ==
    /\ obs.ppu_ticks < MaxTicks
    /\ SetWorld(NudgePpuAlignmentOp(World, cart))
    /\ UNCHANGED <<cart, pc, old_scanline, last_write, apu, pulse, sound, dmc, bus, save, range>>

\* a CPU store to the mask register, made before the tick of dot 339
CpuWriteMask ==
    /\ nes.ppu.current_scanline_cycle = 339
    /\ \E m \in {0, 30} :
          /\ m # nes.ppu.mask
          /\ nes' = [nes EXCEPT !.ppu = CpuWrite(@, [reg |-> "mask", value |-> m])]
    /\ UNCHANGED <<cart, pc, old_scanline, obs, last_write, apu, pulse, sound, dmc, bus, save, range>>

NextPpu == NudgePpuAlignment \/ CpuWriteMask

SpecPpu == InitPpu /\ [][NextPpu]_vars

-----------------------------------------------------------------------------
(* Whole frames: the PPU ticked from the end of frame 1 through the frames  *)
(* that follow, rendering disabled or enabled.                               *)

FrameLength == (LastScanline + 1) * (LastDot + 1)

InitFrame ==
    /\ \E m \in {0, 30} :
          nes = [NesIdleAt(1, LastScanline, LastDot - 1) EXCEPT !.ppu.mask = m]
    /\ obs = ObsIdleAt(1, LastScanline, LastDot - 1)
    /\ cart = OpenBusCart
    /\ pc = "idle"
    /\ old_scanline = 0
    /\ last_write = NoPpuWrite
    /\ AudioAtPowerOn
    /\ DmcAtPowerOn
    /\ NothingSavedOrTested

\* nudge_ppu_alignment called n times (n > 0), or until the PPU leaves the
\* scanline: the first half of the calls, then the rest
RECURSIVE ClockDots(_, _, _, _)
ClockDots(w, c, scanline, n) ==
    IF n = 1 THEN NudgePpuAlignmentOp(w, c)
    ELSE Then(ClockDots(w, c, scanline, n \div 2), LAMBDA w1 :
             IF w1.n.ppu.current_scanline = scanline
             THEN ClockDots(w1, c, scanline, n - (n \div 2))
             ELSE w1)

\* nudge_ppu_alignment called until the PPU leaves the scanline it is on
ClockUntilScanlineEnd(w, c, scanline) == ClockDots(w, c, scanline, LastDot + 1)

\* the ticks of one scanline, until MaxFrames frames have followed the one
\* Init is in
ClockScanline ==
    /\ Len(obs.frames) <= MaxFrames
    /\ SetWorld(ClockUntilScanlineEnd(World, cart, nes.ppu.current_scanline))
    /\ UNCHANGED <<cart, pc, old_scanline, last_write, apu, pulse, sound, dmc, bus, save, range>>

\* a CPU store to the mask register before the first tick of frame 2,
\* switching rendering on or off
CpuWriteMaskAtFrameStart ==
    /\ Len(obs.frames) = 1
    /\ obs.frame_ticks = 0
    /\ nes' = [nes EXCEPT !.ppu = CpuWrite(@, [reg |-> "mask",
                                                value |-> 30 - nes.ppu.mask])]
    /\ UNCHANGED <<cart, pc, old_scanline, obs, last_write, apu, pulse, sound, dmc, bus, save, range>>

NextFrame == ClockScanline \/ CpuWriteMaskAtFrameStart

SpecFrame == InitFrame /\ [][NextFrame]_vars

-----------------------------------------------------------------------------
(* Palette memory written through write_byte. *)

PaletteWriteAddresses ==
    {16128, 16132, 16136, 16140, 16144, 16148, 16152, 16156,
     16129, 16145, 32528, 8192}

PaletteWriteData == {0, 42, 255}

InitPalette ==
    /\ \E m \in {0, 1} : nes = [NesIdleAt(0, 0, 0) EXCEPT !.ppu.mask = m]
    /\ obs = ObsIdleAt(0, 0, 0)
    /\ cart = SolidCart
    /\ pc = "idle"
    /\ old_scanline = 0
    /\ last_write = NoPpuWrite
    /\ AudioAtPowerOn
    /\ DmcAtPowerOn
    /\ NothingSavedOrTested

PpuWriteByte ==
    /\ last_write.count < MaxWrites
    /\ \E address \in PaletteWriteAddresses, data \in PaletteWriteData :
          /\ nes' = [nes EXCEPT !.ppu = WriteByte(@, address, data)]
          /\ cart' = IF address % 16384 <= 16127
                     THEN MapperWritePpu(cart, address % 16384, data)
                     ELSE cart
          /\ last_write' = [address |-> address, data |-> data,
                            count |-> last_write.count + 1]
    /\ UNCHANGED <<pc, old_scanline, obs, apu, pulse, sound, dmc, bus, save, range>>

NextPalette == PpuWriteByte

SpecPalette == InitPalette /\ [][NextPalette]_vars

-----------------------------------------------------------------------------
(* The audio unit run cycle by cycle (run_to_cycle), with the CPU storing  *)
(* to its registers at the cycles a program names.                         *)

ApuWorld == [a |-> apu, o |-> sound]

SetApuWorld(w) == apu' = w.a /\ sound' = w.o

Store(at, address, data) == [at |-> at, address |-> address, data |-> data]

\* a store to the frame counter register at an even or an odd cycle
FrameCounterPrograms ==
    {<<Store(at, FrameCounterRegister, data)>> : at \in {6, 7}, data \in {0, 64, 128, 192}}

\* pulse 1 and pulse 2 set up to sweep downwards from period 0x400
SweepProgram ==
    <<Store(1, 16384, 191), Store(2, 16385, 137), Store(3, 16386, 0),
      Store(4, 16387, 12), Store(5, 16388, 191), Store(6, 16389, 137),
      Store(7, 16390, 0), Store(8, 16391, 12)>>

\* pulse 1 negating with a shift of zero
NegateProgram == <<Store(2, 16385, 136)>>

\* a second store to the frame counter register while the first one's reset
\* is pending
RewriteProgram ==
    <<Store(6, FrameCounterRegister, 128), Store(8, FrameCounterRegister, 0)>>

\* pulse 1 given a constant volume of 15 and nothing else
VolumeProgram == <<Store(1, 16384, 31)>>

\* pulse 1 given a running length counter and an envelope to start, then a
\* store that selects the five-step sequence, which clocks both at once
LengthProgram ==
    <<Store(1, 16384, 15), Store(2, 16387, 8), Store(3, FrameCounterRegister, 128)>>

\* the cycles a run may start at: power-on, and shortly before the end of
\* the four-step and of the five-step sequence a program's last store began
ApuStarts(program) ==
    IF program = <<>> THEN {0, 29820}
    ELSE IF program \in FrameCounterPrograms
    THEN {0, program[1].at + FrameResetDelay
             + (IF program[1].data >= 128 THEN 37270 ELSE 29820)}
    ELSE {0}

WriteDue(w) ==
    /\ w.o.writes < Len(w.o.program)
    /\ w.o.program[w.o.writes + 1].at = w.a.current_cycle

\* the CPU makes the next store of the program
ApuStore(w) ==
    LET st == w.o.program[w.o.writes + 1]
        framed == st.address = FrameCounterRegister
    IN  [a |-> ApuWriteRegister(w.a, st.address, st.data),
         o |-> [w.o EXCEPT !.writes = @ + 1,
                           !.frame_writes = IF framed THEN @ + 1 ELSE @,
                           !.write_cycle = IF framed THEN w.a.current_cycle ELSE @,
                           !.since_write = IF framed THEN 0 ELSE @]]

\* n cycles of the program (n > 0): the store due at each cycle, then the
\* cycle; the first half of the cycles, then the rest
RECURSIVE RunProgram(_, _)
RunProgram(w, n) ==
    IF n = 1
    THEN RunToCycle(IF WriteDue(w) THEN ApuStore(w) ELSE w, w.a.current_cycle + 1)
    ELSE Then(RunProgram(w, n \div 2), LAMBDA w1 : RunProgram(w1, n - (n \div 2)))

ApuAt(program, start, checks) ==
    LET w == [a |-> ApuNew,
              o |-> [SoundNew EXCEPT !.program = program,
                                     !.overflow_checks = checks]]
    IN  IF start = 0 THEN w ELSE RunProgram(w, start)

ApuScenarios ==
    UNION {{<<program, start, FALSE>> : start \in ApuStarts(program)} :
              program \in {<<>>, SweepProgram, RewriteProgram, VolumeProgram,
                          LengthProgram}
                              \cup FrameCounterPrograms}
    \cup {<<NegateProgram, 0, checks>> : checks \in BOOLEAN}

InitApu ==
    /\ ConsoleAtPowerOn
    /\ DmcAtPowerOn
    /\ NothingSavedOrTested
    /\ pulse = PulseNew(TRUE)
    /\ \E sc \in ApuScenarios :
          \E w \in {ApuAt(sc[1], sc[2], sc[3])} :
             /\ apu = w.a
             /\ sound = w.o

WriteRegister ==
    /\ ~sound.panicked
    /\ WriteDue(ApuWorld)
    /\ SetApuWorld(ApuStore(ApuWorld))
    /\ UNCHANGED <<nes, cart, pc, old_scanline, obs, last_write, pulse, dmc, bus, save, range>>

RunApuCycle ==
    /\ ~sound.panicked
    /\ ~WriteDue(ApuWorld)
    /\ apu.current_cycle < MaxApuCycles
    /\ SetApuWorld(RunToCycle(ApuWorld, apu.current_cycle + 1))
    /\ UNCHANGED <<nes, cart, pc, old_scanline, obs, last_write, pulse, dmc, bus, save, range>>

NextApu == WriteRegister \/ RunApuCycle

SpecApu == InitApu /\ [][NextApu]_vars

-----------------------------------------------------------------------------
(* One pulse channel of apu/pulse.rs and the channel of apu.rs with the    *)
(* same registers, clocked by hand.                                        *)

PulseInputs ==
    {[PulseNew(ones) EXCEPT
         !.envelope = [constant_volume |-> TRUE, volume_register |-> 15, decay |-> 0],
         !.length_counter = [length |-> length, halt_flag |-> FALSE,
                             channel_enabled |-> length > 0],
         !.sweep_enabled = enabled,
         !.sweep_period = period,
         !.sweep_divider = divider,
         !.sweep_negate = negate,
         !.sweep_shift = shift,
         !.sweep_reload = reload,
         !.duty = 192,
         !.sequence_counter = 7,
         !.period_initial = period_initial] :
       ones \in BOOLEAN, length \in {0, 10}, enabled \in BOOLEAN,
       period \in {0, 2}, divider \in {0, 1}, negate \in BOOLEAN,
       shift \in {0, 1, 3}, reload \in BOOLEAN,
       period_initial \in {0, 7, 8, 1024, 1100, 2047}}

\* the channel of apu.rs holding the registers of p
ApuPulseLike(p) ==
    [ApuPulseNew(p.sweep_ones_compliment) EXCEPT
         !.volume = p.envelope.volume_register,
         !.length = p.length_counter.length,
         !.sweep_enabled = p.sweep_enabled,
         !.sweep_period = p.sweep_period,
         !.sweep_divider = p.sweep_divider,
         !.sweep_negate = p.sweep_negate,
         !.sweep_shift = p.sweep_shift,
         !.sweep_reload = p.sweep_reload,
         !.duty = p.duty,
         !.sequence_counter = p.sequence_counter,
         !.period_initial = p.period_initial]

\* the channel of apu.rs that has the sweep arithmetic of p
ApuPulseOf(a, p) == IF p.sweep_ones_compliment THEN a.pulse_1 ELSE a.pulse_2

InitPulse ==
    /\ ConsoleAtPowerOn
    /\ DmcAtPowerOn
    /\ NothingSavedOrTested
    /\ pulse \in PulseInputs
    /\ apu = IF pulse.sweep_ones_compliment
             THEN [ApuNew EXCEPT !.pulse_1 = ApuPulseLike(pulse)]
             ELSE [ApuNew EXCEPT !.pulse_2 = ApuPulseLike(pulse)]
    /\ \E checks \in BOOLEAN : sound = [SoundNew EXCEPT !.overflow_checks = checks]

\* a half-frame clock: update_sweep on every channel
HalfFrameClock ==
    /\ ~sound.panicked
    /\ sound.calls < MaxPulseCalls
    /\ pulse' = PulseUpdateSweep(pulse)
    /\ LET w == ClockHalfFrame(ApuWorld)
       IN  /\ apu' = w.a
           /\ sound' = [w.o EXCEPT !.calls = @ + 1, !.swept = TRUE]
    /\ UNCHANGED <<nes, cart, pc, old_scanline, obs, last_write, dmc, bus, save, range>>

\* a timer clock: clock() on every channel
PulseTimerClock ==
    /\ ~sound.panicked
    /\ sound.calls < MaxPulseCalls
    /\ pulse' = PulseClock(pulse)
    /\ apu' = [apu EXCEPT !.pulse_1 = ApuPulseClock(@), !.pulse_2 = ApuPulseClock(@)]
    /\ sound' = [sound EXCEPT !.calls = @ + 1, !.swept = FALSE]
    /\ UNCHANGED <<nes, cart, pc, old_scanline, obs, last_write, dmc, bus, save, range>>

\* record_current_output: output() handed to the filter, the edge flag cleared
RecordCurrentOutput ==
    /\ ~sound.panicked
    /\ sound.calls < MaxPulseCalls
    /\ pulse' = [pulse EXCEPT !.last_edge = FALSE]
    /\ sound' = [sound EXCEPT !.calls = @ + 1,
                              !.swept = FALSE,
                              !.output = [recorded |-> TRUE,
                                          channel |-> pulse,
                                          value |-> PulseOutput(pulse)]]
    /\ UNCHANGED <<nes, cart, pc, old_scanline, obs, last_write, apu, dmc, bus, save, range>>

NextPulse == HalfFrameClock \/ PulseTimerClock \/ RecordCurrentOutput

SpecPulse == InitPulse /\ [][NextPulse]_vars

-----------------------------------------------------------------------------
(* The DMC clocked once per CPU cycle through a sample.  The registers     *)
(* that start a sample are stored by code outside apu/dmc.rs: a run begins *)
(* with the sample started (current_address = starting_address,            *)
(* bytes_remaining = sample_length), or at power-on.                       *)

DmcWorld == [d |-> dmc, b |-> bus]

SetDmcWorld(w) == dmc' = w.d /\ bus' = w.b

\* the channel after the stores that start a sample
DmcSample(start, length, looping, irq, period) ==
    [DmcNew EXCEPT !.starting_address = start,
                   !.sample_length = length,
                   !.current_address = start,
                   !.bytes_remaining = length,
                   !.looping = looping,
                   !.interrupt_enabled = irq,
                   !.period_initial = period]

\* clock called n times (n > 0): the first half of the calls, then the rest
RECURSIVE DmcClockTimes(_, _)
DmcClockTimes(w, n) ==
    IF n = 1 THEN DmcClock(w)
    ELSE Then(DmcClockTimes(w, n \div 2), LAMBDA w1 : DmcClockTimes(w1, n - (n \div 2)))

\* start, length, looping, interrupt enabled, period; what the mapper answers,
\* the last byte on the CPU bus; the clocks the run begins after; the output
\* level loaded before the run
DmcScenarios ==
    {<<49152, 16, FALSE, TRUE, 54, 85, 64, 0, 0>>,
     <<49152, 16, FALSE, TRUE, 54, 85, 64, 7200, 0>>,
     <<49152, 16, FALSE, TRUE, 54, NoByte, 64, 0, 0>>,
     <<65472, 65, FALSE, TRUE, 54, 255, 64, 0, 0>>,
     <<65472, 65, FALSE, TRUE, 54, 255, 64, 27100, 0>>,
     <<65472, 65, FALSE, TRUE, 54, 255, 64, 27500, 0>>,
     <<65472, 64, TRUE, TRUE, 54, 255, 64, 27100, 0>>,
     <<49152, 1, FALSE, TRUE, 428, 85, 0, 0, 0>>,
     <<49152, 17, FALSE, FALSE, 54, 0, 64, 0, 0>>,
     <<49216, 2, TRUE, TRUE, 54, NoByte, 0, 0, 0>>,
     <<0, 0, FALSE, TRUE, 428, NoByte, 0, 0, 0>>,
     <<0, 0, FALSE, TRUE, 428, NoByte, 0, 0, 64>>,
     <<49152, 16, FALSE, TRUE, 54, 255, 64, 0, 121>>,
     <<49152, 16, FALSE, TRUE, 54, 255, 64, 0, 126>>,
     <<49152, 16, FALSE, TRUE, 54, 0, 64, 0, 21>>,
     <<49152, 16, FALSE, TRUE, 54, 85, 64, 0, 127>>}

DmcAt(sc) ==
    LET w == [d |-> [DmcSample(sc[1], sc[2], sc[3], sc[4], sc[5])
                         EXCEPT !.output_level = sc[9]],
              b |-> [BusNew EXCEPT !.prg = sc[6], !.open_bus = sc[7]]]
    IN  IF sc[8] = 0 THEN w ELSE DmcClockTimes(w, sc[8])

InitDmc ==
    /\ ConsoleAtPowerOn
    /\ AudioAtPowerOn
    /\ NothingSavedOrTested
    /\ \E sc \in DmcScenarios :
          \E w \in {DmcAt(sc)} :
             /\ dmc = w.d
             /\ bus = w.b

ClockDmc ==
    /\ bus.clocks < MaxDmcClocks
    /\ SetDmcWorld(DmcClock(DmcWorld))
    /\ UNCHANGED <<nes, cart, pc, old_scanline, obs, last_write, apu, pulse, sound,
                   save, range>>

NextDmc == ClockDmc

SpecDmc == InitDmc /\ [][NextDmc]_vars

-----------------------------------------------------------------------------
(* The length counter of a pulse channel, clocked and loaded by hand.  The *)
(* stores that enable or disable the channel and set the halt flag are     *)
(* made by code outside src/: they set the flag and nothing else.          *)

LengthInputs ==
    {[length |-> length, halt_flag |-> halt, channel_enabled |-> enabled] :
        length \in {0, 1, 2}, halt \in BOOLEAN, enabled \in BOOLEAN}

InitLength ==
    /\ ConsoleAtPowerOn
    /\ DmcAtPowerOn
    /\ NothingSavedOrTested
    /\ apu = ApuNew
    /\ sound = SoundNew
    /\ \E l \in LengthInputs : pulse = [PulseNew(TRUE) EXCEPT !.length_counter = l]

LengthCallMade(name, index) ==
    /\ sound.calls < MaxLengthCalls
    /\ sound' = [sound EXCEPT !.calls = @ + 1,
                              !.length_call = name,
                              !.length_index = index]
    /\ UNCHANGED <<nes, cart, pc, old_scanline, obs, last_write, apu, dmc, bus,
                   save, range>>

ClockLengthCounter ==
    /\ pulse' = [pulse EXCEPT !.length_counter = LengthCounterClock(@)]
    /\ LengthCallMade("clock", 0)

SetLength ==
    \E index \in 0..31 :
        /\ pulse' = [pulse EXCEPT !.length_counter = LengthCounterSetLength(@, index)]
        /\ LengthCallMade("set_length", index)

\* a store that enables or disables the channel, or sets or clears halt_flag
StoreLengthFlags ==
    /\ \/ pulse' = [pulse EXCEPT !.length_counter.channel_enabled = ~@]
       \/ pulse' = [pulse EXCEPT !.length_counter.halt_flag = ~@]
    /\ LengthCallMade("store", 0)

NextLength == ClockLengthCounter \/ SetLength \/ StoreLengthFlags

SpecLength == InitLength /\ [][NextLength]_vars

-----------------------------------------------------------------------------
(* The Y-range test of evaluate_sprites on every operand it can meet: a    *)
(* visible scanline, an OAM byte, a sprite size.                           *)

InitRange ==
    /\ ConsoleAtPowerOn
    /\ AudioAtPowerOn
    /\ DmcAtPowerOn
    /\ save = SaveNew
    /\ \E scanline \in 0..239, y \in 0..255, sprite_size \in {8, 16}, checks \in BOOLEAN :
          range = [RangeNew EXCEPT !.scanline = scanline,
                                   !.y = y,
                                   !.sprite_size = sprite_size,
                                   !.overflow_checks = checks]

TestRange ==
    /\ ~range.tested
    /\ range' = SpriteRangeTest(range, range.overflow_checks)
    /\ UNCHANGED <<nes, cart, pc, old_scanline, obs, last_write, apu, pulse, sound,
                   dmc, bus, save>>

NextRange == TestRange

SpecRange == InitRange /\ [][NextRange]_vars

-----------------------------------------------------------------------------
(* target_period of both pulse implementations on every period and shift   *)
(* the registers can hold.                                                 *)

InitTarget ==
    /\ ConsoleAtPowerOn
    /\ DmcAtPowerOn
    /\ NothingSavedOrTested
    /\ \E period_initial \in 0..2047, shift \in 0..7, negate \in BOOLEAN,
          ones \in BOOLEAN :
          pulse = [PulseNew(ones) EXCEPT !.period_initial = period_initial,
                                         !.sweep_shift = shift,
                                         !.sweep_negate = negate]
    /\ apu = IF pulse.sweep_ones_compliment
             THEN [ApuNew EXCEPT !.pulse_1 = ApuPulseLike(pulse)]
             ELSE [ApuNew EXCEPT !.pulse_2 = ApuPulseLike(pulse)]
    /\ sound = SoundNew

CallTargetPeriod ==
    /\ ~sound.target.called
    /\ sound' = [sound EXCEPT !.target =
                     [called |-> TRUE,
                      pulse_rs |-> PulseTargetPeriod(pulse),
                      pulse_rs_overflowed |-> PulseTargetOverflows(pulse),
                      apu_rs |-> ApuPulseTargetPeriod(ApuPulseOf(apu, pulse)),
                      apu_rs_overflowed |->
                          ApuPulseTargetOverflows(ApuPulseOf(apu, pulse))]]
    /\ UNCHANGED <<nes, cart, pc, old_scanline, obs, last_write, apu, pulse, dmc, bus,
                   save, range>>

NextTarget == CallTargetPeriod

SpecTarget == InitTarget /\ [][NextTarget]_vars

-----------------------------------------------------------------------------
(* An object saved to a buffer and loaded back into a freshly made one;    *)
(* a pulse channel's buffer may be truncated in between, within the bytes  *)
(* of the channel's own fields.                                            *)

SavedPulses ==
    {[PulseNew(ones) EXCEPT
         !.last_edge = edge,
         !.envelope = [constant_volume |-> TRUE, volume_register |-> 15, decay |-> 3],
         !.length_counter = [length |-> 10, halt_flag |-> TRUE,
                             channel_enabled |-> enabled],
         !.sweep_enabled = enabled,
         !.sweep_period = 2,
         !.sweep_divider = 1,
         !.sweep_negate = negate,
         !.sweep_shift = 3,
         !.sweep_reload = reload,
         !.duty = 192,
         !.sequence_counter = 7,
         !.period_initial = initial,
         !.period_current = current,
         !.cpu_clock_rate = rate] :
       ones \in BOOLEAN, edge \in BOOLEAN, enabled \in BOOLEAN,
       negate \in BOOLEAN, reload \in BOOLEAN, initial \in {0, 1100, 2047},
       current \in {0, 255, 256, 2047}, rate \in {0, 1786860, 2147483647}}

SavedConsoles ==
    {[apu |-> <<1, 2>>, cpu |-> <<3>>, memory |-> <<4, 5>>, ppu |-> <<6>>,
      registers |-> <<7>>, master_clock |-> master_clock, p1_input |-> p1_input,
      p1_data |-> 2, p2_input |-> 3, p2_data |-> p2_data,
      input_latch |-> input_latch, mapper |-> <<8>>, last_frame |-> last_frame] :
       master_clock \in {0, 89342, 2147483647}, p1_input \in {0, 1},
       p2_data \in {4, 255}, input_latch \in BOOLEAN, last_frame \in {0, 66051}}

\* the bytes a buffer may hold before a channel or a length counter is saved
\* to it; NesState::save_state makes its own buffer
SavePrefixes == {<<>>, <<165>>}

\* the lengths a pulse channel's buffer may be truncated to
CutLengths == {0, 7, 9, 20}

InitSave ==
    /\ ConsoleAtPowerOn
    /\ AudioAtPowerOn
    /\ DmcAtPowerOn
    /\ range = RangeNew
    /\ \/ \E p \in SavedPulses, prefix \in SavePrefixes :
            save = [SaveNew EXCEPT !.kind = "pulse", !.source = p,
                                   !.prefix = prefix, !.buff = prefix]
       \/ \E l \in LengthInputs, prefix \in SavePrefixes :
            save = [SaveNew EXCEPT !.kind = "length", !.source = l,
                                   !.prefix = prefix, !.buff = prefix]
       \/ \E n \in SavedConsoles :
            save = [SaveNew EXCEPT !.kind = "nes", !.source = n]

SaveState ==
    /\ save.done = "none"
    /\ save' = [save EXCEPT
           !.buff = CASE save.kind = "pulse" -> PulseSaveState(save.source, @)
                      [] save.kind = "length" ->
                             LengthCounterSaveState(save.source, @)
                      [] OTHER -> NesSaveState(save.source),
           !.done = "saved"]
    /\ UNCHANGED <<nes, cart, pc, old_scanline, obs, last_write, apu, pulse,
                   sound, dmc, bus, range>>

CutBuffer ==
    /\ save.done = "saved"
    /\ save.kind = "pulse"
    /\ ~save.cut
    /\ \E k \in CutLengths :
         save' = [save EXCEPT !.buff = SubSeq(@, 1, k), !.cut = TRUE]
    /\ UNCHANGED <<nes, cart, pc, old_scanline, obs, last_write, apu, pulse,
                   sound, dmc, bus, range>>

\* load_state into a freshly made object; it returns nothing
LoadState ==
    /\ save.done = "saved"
    /\ save' = CASE save.kind = "pulse" ->
                      LET r == PulseLoadState(PulseNew(FALSE), save.buff)
                      IN  [save EXCEPT !.target = r.state, !.buff = r.data,
                                       !.aborted = r.aborted, !.done = "loaded",
                                       !.returned = "()"]
                 [] save.kind = "length" ->
                      LET r == LengthCounterLoadState(LengthCounterNew, save.buff)
                      IN  [save EXCEPT !.target = r.state, !.buff = r.buff,
                                       !.done = "loaded", !.returned = "()"]
                 [] OTHER ->
                      LET r == NesLoadState(NesFieldsNew, save.buff)
                      IN  [save EXCEPT !.target = r.state, !.buff = r.buff,
                                       !.done = "loaded", !.returned = "()"]
    /\ UNCHANGED <<nes, cart, pc, old_scanline, obs, last_write, apu, pulse,
                   sound, dmc, bus, range>>

NextSave ==
    \/ SaveState
    \/ CutBuffer
    \/ LoadState

SpecSave == InitSave /\ [][NextSave]_vars

-----------------------------------------------------------------------------
(* The PPU ticked from dot 255 of a visible or of the pre-render scanline  *)
(* through the dots that reload the scroll, with v and t as the CPU's      *)
(* stores to the address and scroll registers left them: 15 bits each.     *)

ScrollStarts ==
    {10, LastScanline} \X {0, 30} \X {0, 1055, 4660, 21930, 31712, 32767}
        \X {0, 10837, 21930, 32767} \X {0, 5}

InitScroll ==
    /\ \E sc \in ScrollStarts :
          /\ nes = [NesIdleAt(0, sc[1], 255) EXCEPT
                       !.ppu.mask = sc[2],
                       !.ppu.current_vram_address = sc[3],
                       !.ppu.temporary_vram_address = sc[4],
                       !.ppu.fine_x = sc[5]]
          /\ obs = ObsIdleAt(0, sc[1], 255)
    /\ cart = SolidCart
    /\ pc = "idle"
    /\ old_scanline = 0
    /\ last_write = NoPpuWrite
    /\ AudioAtPowerOn
    /\ DmcAtPowerOn
    /\ NothingSavedOrTested

NudgeThroughScroll ==
    /\ obs.ppu_ticks < MaxScrollTicks
    /\ SetWorld(NudgePpuAlignmentOp(World, cart))
    /\ UNCHANGED <<cart, pc, old_scanline, last_write, apu, pulse, sound, dmc,
                   bus, save, range>>

NextScroll == NudgeThroughScroll

SpecScroll == InitScroll /\ [][NextScroll]_vars

-----------------------------------------------------------------------------
(* The PPU ticked from dot 320 of a visible or of the pre-render scanline  *)
(* through dot 256 of the scanline after it, rendering enabled, no sprite  *)
(* selected, the palette holding its own indices and the cartridge a byte  *)
(* that differs from address to address.                                   *)

VariedCart == [chr |-> ByAddress, nt |-> ByAddress]

TileStarts ==
    {10, LastScanline} \X {30, 24} \X {0, 30, 31, 1055, 12451, 32767} \X {0, 16}

InitTiles ==
    /\ \E sc \in TileStarts :
          /\ nes = [NesIdleAt(0, sc[1], 320) EXCEPT
                       !.ppu.mask = sc[2],
                       !.ppu.current_vram_address = sc[3],
                       !.ppu.control = sc[4],
                       !.ppu.palette = [i \in 0..31 |-> i]]
          /\ obs = ObsIdleAt(0, sc[1], 320)
    /\ cart = VariedCart
    /\ pc = "idle"
    /\ old_scanline = 0
    /\ last_write = NoPpuWrite
    /\ AudioAtPowerOn
    /\ DmcAtPowerOn
    /\ NothingSavedOrTested

NudgeThroughTiles ==
    /\ obs.ppu_ticks < MaxTileTicks
    /\ SetWorld(NudgePpuAlignmentOp(World, cart))
    /\ UNCHANGED <<cart, pc, old_scanline, last_write, apu, pulse, sound, dmc,
                   bus, save, range>>

NextTiles == NudgeThroughTiles

SpecTiles == InitTiles /\ [][NextTiles]_vars

-----------------------------------------------------------------------------
(* One sprite, of row 10 and of any column, in front of the background:    *)
(* the PPU ticked from dot 256 of scanline 10, where the sprite is         *)
(* selected, through dot 256 of scanline 11, where it is drawn.  Sprites   *)
(* are shown in every column and the palette holds its own indices.        *)

InitColumns ==
    /\ \E k \in 0..255, attributes \in {0, 64} :
          nes = [NesIdleAt(0, 10, 256) EXCEPT
                    !.ppu.mask = 30,
                    !.ppu.oam = [OamImage(10, k) EXCEPT ![2] = attributes],
                    !.ppu.palette = [i \in 0..31 |-> i]]
    /\ obs = ObsIdleAt(0, 10, 256)
    /\ cart = VariedCart
    /\ pc = "idle"
    /\ old_scanline = 0
    /\ last_write = NoPpuWrite
    /\ AudioAtPowerOn
    /\ DmcAtPowerOn
    /\ NothingSavedOrTested

NudgeThroughColumns ==
    /\ obs.ppu_ticks < MaxColumnTicks
    /\ SetWorld(NudgePpuAlignmentOp(World, cart))
    /\ UNCHANGED <<cart, pc, old_scanline, last_write, apu, pulse, sound, dmc,
                   bus, save, range>>

NextColumns == NudgeThroughColumns

SpecColumns == InitColumns /\ [][NextColumns]_vars

-----------------------------------------------------------------------------
(* increment_fine_y called once, at dot 256 of a visible scanline with     *)
(* rendering enabled, on every 15-bit v.                                   *)

InitFineY ==
    /\ \E v \in 0..32767 :
          nes = [NesIdleAt(0, 10, 256) EXCEPT !.ppu.mask = 30,
                                              !.ppu.current_vram_address = v]
    /\ obs = ObsIdleAt(0, 10, 256)
    /\ cart = SolidCart
    /\ pc = "idle"
    /\ old_scanline = 0
    /\ last_write = NoPpuWrite
    /\ AudioAtPowerOn
    /\ DmcAtPowerOn
    /\ NothingSavedOrTested

CallIncrementFineY ==
    /\ pc = "idle"
    /\ pc' = "incremented"
    /\ nes' = [nes EXCEPT !.ppu = IncrementFineY(@)]
    /\ UNCHANGED <<cart, old_scanline, obs, last_write, apu, pulse, sound, dmc,
                   bus, save, range>>

NextFineY == CallIncrementFineY

SpecFineY == InitFineY /\ [][NextFineY]_vars

-----------------------------------------------------------------------------
(* The CPU reading the PPU's data port: read_latched_byte called with the  *)
(* address the read is made at, during vertical blank.                     *)

DataCarts == {OpenBusCart, SolidCart, [chr |-> 17, nt |-> 204]}

DataAddresses == {0, 8191, 8192, 16127, 16128, 16144, 16145, 16383, 16384, 32517}

InitData ==
    /\ \E buffer \in {0, 77}, bus_byte \in {0, 33}, m \in {0, 1} :
          nes = [NesIdleAt(0, 245, 10) EXCEPT !.ppu.read_buffer = buffer,
                                              !.ppu.open_bus = bus_byte,
                                              !.ppu.mask = m]
    /\ obs = ObsIdleAt(0, 245, 10)
    /\ cart \in DataCarts
    /\ pc = "idle"
    /\ old_scanline = 0
    /\ last_write = NoPpuWrite
    /\ AudioAtPowerOn
    /\ DmcAtPowerOn
    /\ NothingSavedOrTested

ReadData ==
    /\ obs.data_reads < MaxDataReads
    /\ \E address \in DataAddresses :
          LET r == ReadLatchedByte(nes.ppu, cart, address)
          IN  /\ nes' = [nes EXCEPT !.ppu = r.state]
              /\ obs' = [obs EXCEPT !.data_reads = @ + 1,
                                    !.read_address = address,
                                    !.read_value = r.value]
    /\ UNCHANGED <<cart, pc, old_scanline, last_write, apu, pulse, sound, dmc,
                   bus, save, range>>

NextData == ReadData

SpecData == InitData /\ [][NextData]_vars

-----------------------------------------------------------------------------
(* The status register through vertical blank: the PPU ticked dot by dot   *)
(* from the end of the visible frame into the next frame.                  *)

\* nine sprites on rows 10 and 14, sprite 0 among them
CrowdedOam == OamLayout(SpriteRows(0, 1, 9, 10, 240))

\* frame 1 rendered with the sprites of oam from dot 250 of scanline 10 to
\* dot 250 of scanline 260
RenderedFrameEnd(oam) ==
    NudgeTimes([n |-> [NesIdleAt(1, 10, 250) EXCEPT !.ppu.mask = 30,
                                                    !.ppu.oam = oam],
                o |-> ObsIdleAt(1, 10, 250)],
               SolidCart, 250 * (LastDot + 1))

InitStatus ==
    /\ \/ \E m \in {0, 30} :
             /\ nes = [NesIdleAt(0, 240, 330) EXCEPT !.ppu.mask = m]
             /\ obs = ObsIdleAt(0, 240, 330)
             /\ cart = OpenBusCart
       \/ \E w \in {RenderedFrameEnd(CrowdedOam)} :
             /\ nes = w.n
             /\ obs = [w.o EXCEPT !.ppu_ticks = 0]
             /\ cart = SolidCart
    /\ pc = "idle"
    /\ old_scanline = 0
    /\ last_write = NoPpuWrite
    /\ AudioAtPowerOn
    /\ DmcAtPowerOn
    /\ NothingSavedOrTested

NudgeThroughVblank ==
    /\ obs.ppu_ticks < MaxStatusTicks
    /\ SetWorld(NudgePpuAlignmentOp(World, cart))
    /\ UNCHANGED <<cart, pc, old_scanline, last_write, apu, pulse, sound, dmc, bus, save, range>>

\* a CPU store to the mask register at the end of scanline 260, switching
\* rendering on or off
CpuWriteMaskBeforePrerender ==
    /\ nes.ppu.current_scanline = 260
    /\ nes.ppu.current_scanline_cycle = 339
    /\ nes' = [nes EXCEPT !.ppu = CpuWrite(@, [reg |-> "mask",
                                                value |-> 30 - nes.ppu.mask])]
    /\ UNCHANGED <<cart, pc, old_scanline, obs, last_write, apu, pulse, sound, dmc, bus, save, range>>

NextStatus == NudgeThroughVblank \/ CpuWriteMaskBeforePrerender

SpecStatus == InitStatus /\ [][NextStatus]_vars

-----------------------------------------------------------------------------
(* Sprite evaluation: the PPU ticked through dot 257 of a visible scanline *)
(* with rendering enabled, over OAM images of every crowding.              *)

SpriteRowInputs ==
    {SpriteRows(first, step, count, 50, 240) :
        first \in {0, 1, 5}, step \in {1, 7}, count \in {0, 1, 8, 9, 10}}

\* the PPU at dot 256 of a scanline, rendering just enabled; or there after
\* the scanline before it was rendered from its dot 256
SpriteStart(rows, scanline, control, rendered) ==
    LET at == IF rendered THEN scanline - 1 ELSE scanline
        w == [n |-> [NesIdleAt(0, at, 256) EXCEPT !.ppu.mask = 30,
                                                   !.ppu.control = control,
                                                   !.ppu.oam = OamLayout(rows)],
              o |-> ObsIdleAt(0, at, 256)]
    IN  IF rendered THEN NudgeTimes(w, SolidCart, LastDot + 1) ELSE w

InitSprites ==
    /\ \E rows \in SpriteRowInputs, scanline \in {49, 50, 57, 58, 62, 66},
          control \in {0, 32}, rendered \in BOOLEAN :
          /\ rendered => scanline \in {58, 66}
          /\ \E w \in {SpriteStart(rows, scanline, control, rendered)} :
                /\ nes = w.n
                /\ obs = [w.o EXCEPT !.ppu_ticks = 0]
    /\ cart = SolidCart
    /\ pc = "idle"
    /\ old_scanline = 0
    /\ last_write = NoPpuWrite
    /\ AudioAtPowerOn
    /\ DmcAtPowerOn
    /\ NothingSavedOrTested

NudgeThroughEvaluation ==
    /\ obs.ppu_ticks < MaxSpriteTicks
    /\ SetWorld(NudgePpuAlignmentOp(World, cart))
    /\ UNCHANGED <<cart, pc, old_scanline, last_write, apu, pulse, sound, dmc, bus, save, range>>

NextSprites == NudgeThroughEvaluation

SpecSprites == InitSprites /\ [][NextSprites]_vars

-----------------------------------------------------------------------------
(* The properties. *)

\* the step taken is one PpuState::clock() call
Ticked == obs'.ppu_ticks = obs.ppu_ticks + 1

HitBit(p) == BitAnd(p.status, 64)

CycleOrder == <<"cpu", "master_clock", "ppu", "ppu", "ppu", "apu", "mapper">>

\* C1: every cycle() performs, in this order and with nothing in between, one
\* CPU micro-step, the master clock's advance, three PPU ticks, one APU tick
\* and one mapper clock_cpu(): the record of sub-operations is the sequence
\* CycleOrder repeated once per cycle() made.
C1_CycleOrder ==
    /\ Len(obs.cycle_log) = Len(CycleOrder) * obs.cycles
    /\ \A i \in 1..Len(obs.cycle_log) :
          obs.cycle_log[i] = CycleOrder[((i - 1) % Len(CycleOrder)) + 1]

C1_Witness ==
    /\ obs.cycles >= 12
    /\ pc = "hblank"
    /\ SubSeq(obs.cycle_log, Len(obs.cycle_log) - 6, Len(obs.cycle_log)) = CycleOrder

\* C2: after any sequence of cycle(), step(), run_until_hblank() and
\* run_until_vblank(), the PPU ticks performed are 3 times the CPU cycles issued.
C2_ThreePpuTicksPerCycle == obs.ppu_ticks = 3 * obs.cycles

C2_Witness ==
    /\ pc = "vblank_wait"
    /\ obs.cycles >= 20
    /\ obs.ppu_ticks = 60

\* C3: after every clock() call, with rendering enabled or not and on odd and
\* even frames, current_scanline is in 0..261 and current_scanline_cycle in 0..340.
C3_PositionInRange ==
    /\ nes.ppu.current_scanline \in 0..LastScanline
    /\ nes.ppu.current_scanline_cycle \in 0..LastDot

C3_Witness ==
    /\ obs.ppu_ticks > 0
    /\ RenderingEnabled(nes.ppu)
    /\ nes.ppu.current_frame = 2
    /\ nes.ppu.current_scanline = 0
    /\ nes.ppu.current_scanline_cycle = 1
    /\ obs.frame_ticks = 0

\* C4: after each CPU cycle master_clock is a multiple of 12, equal to 12 times
\* the number of cycle() calls made, and no step decreases it.
C4_MasterClock ==
    /\ [](nes.master_clock % MasterTicksPerCycle = 0
          /\ nes.master_clock = MasterTicksPerCycle * obs.cycles)
    /\ [][nes'.master_clock >= nes.master_clock]_vars

C4_Witness ==
    /\ obs.cycles = 25
    /\ nes.master_clock = 300

\* C5 as stated: whenever sprite_zero_on_scanline is set, OAM entry 0 passes
\* the Y-range test for the current scanline.
C5_FlagForCurrentScanline ==
    nes.ppu.sprite_zero_on_scanline =>
        /\ nes.ppu.current_scanline >= nes.ppu.oam[0]
        /\ nes.ppu.current_scanline < nes.ppu.oam[0] + SpriteSize(nes.ppu)

\* C5 amended: sprite_zero_on_scanline changes only in the clock() call of dot
\* 257 of a visible scanline with rendering enabled, and that call leaves it
\* equal to the Y-range test of OAM entry 0 for the scanline being ticked.
C5_FlagFromLastEvaluation ==
    [][LET p == nes.ppu
           q == nes'.ppu
       IN  IF /\ Ticked
              /\ p.current_scanline <= 239
              /\ p.current_scanline_cycle = 257
              /\ RenderingEnabled(p)
           THEN q.sprite_zero_on_scanline =
                    (/\ p.current_scanline >= p.oam[0]
                     /\ p.current_scanline < p.oam[0] + SpriteSize(p))
           ELSE q.sprite_zero_on_scanline = p.sprite_zero_on_scanline]_vars

C5_Witness ==
    /\ nes.ppu.sprite_zero_on_scanline
    /\ nes.ppu.oam[0] = 10
    /\ nes.ppu.current_scanline = 18
    /\ nes.ppu.current_scanline_cycle = 100

\* a palette read of 0x3F00 + m
PaletteRead(m) == DebugReadByte(nes.ppu, cart, 16128 + m)

\* what a read returns of a byte written to the palette
PaletteShown(data) ==
    IF nes.ppu.mask % 2 # 0 THEN BitAnd(data % 64, 48) ELSE data % 64

MirroredEntries == {16, 20, 24, 28}

\* C6: after any sequence of palette writes, for every m in {0x10, 0x14, 0x18,
\* 0x1C} a read of 0x3F00+m returns what a read of 0x3F00+m-0x10 returns, and a
\* write to either address of such a pair is read back through both.
C6_PaletteMirror ==
    /\ \A m \in MirroredEntries : PaletteRead(m) = PaletteRead(m - 16)
    /\ \A m \in MirroredEntries :
          (/\ last_write.count > 0
           /\ last_write.address % 16384 \in {16128 + m, 16128 + m - 16})
          => /\ PaletteRead(m) = PaletteShown(last_write.data)
             /\ PaletteRead(m - 16) = PaletteShown(last_write.data)

C6_Witness ==
    /\ last_write.count = 2
    /\ last_write.address = 16152
    /\ last_write.data = 42
    /\ nes.ppu.palette[8] = 42
    /\ PaletteRead(8) = 42

\* a frame ended with the jump over a dot
Skipped(fr) == fr.next_dot = 1

\* C7 as stated: a frame that ends with rendering disabled skips no dot, and
\* while every frame has ended so every frame lasts 89342 ticks; two
\* consecutive frames with rendering enabled throughout last 2*89342 - 1 ticks.
C7_FrameLengthsAsStated ==
    /\ \A i \in 1..Len(obs.frames) :
          ~obs.frames[i].end_on => ~Skipped(obs.frames[i])
    /\ (\A i \in 1..Len(obs.frames) : ~obs.frames[i].end_on)
          => \A i \in 1..Len(obs.frames) : obs.frames[i].ticks = FrameLength
    /\ \A i \in 1..(Len(obs.frames) - 1) :
          (obs.frames[i].all_on /\ obs.frames[i + 1].all_on)
          => obs.frames[i].ticks + obs.frames[i + 1].ticks = 2 * FrameLength - 1

\* C7 amended: a frame ends with the jump over a dot exactly when it is an odd
\* frame and rendering is enabled at its last tick; the dot jumped over is dot
\* 0 of the next frame, so a frame lasts 89341 ticks when the frame before it
\* ended with the jump and 89342 ticks otherwise.
C7_FrameLengths ==
    \A i \in 1..Len(obs.frames) :
        /\ obs.frames[i].next_dot \in {0, 1}
        /\ Skipped(obs.frames[i])
              <=> (obs.frames[i].number % 2 = 1 /\ obs.frames[i].end_on)
        /\ obs.frames[i].ticks =
              IF i > 1 /\ Skipped(obs.frames[i - 1])
              THEN FrameLength - 1
              ELSE FrameLength

C7_Witness ==
    /\ Len(obs.frames) = 3
    /\ obs.frames[2].all_on
    /\ obs.frames[3].all_on
    /\ obs.frames[2].ticks = FrameLength - 1
    /\ obs.frames[3].ticks = FrameLength

\* C8 as stated: on an odd frame with rendering enabled dot 340 of scanline
\* 261 is never ticked, and scanline 0 is entered at its dot 0.
C8_PrerenderEndsAtDot339 ==
    [][(/\ Ticked
        /\ nes.ppu.current_scanline = LastScanline
        /\ nes.ppu.current_frame % 2 = 1
        /\ RenderingEnabled(nes.ppu))
       => /\ nes.ppu.current_scanline_cycle # LastDot
          /\ (nes'.ppu.current_scanline = 0
                 => nes'.ppu.current_scanline_cycle = 0)]_vars

\* C8 amended: on an odd frame with rendering enabled the pre-render scanline
\* is ticked through dot 340, and the tick of dot 340 enters the next frame at
\* dot 1 of scanline 0: dot 0 of scanline 0 is the dot left out.
C8_SkipsDotZeroOfNextFrame ==
    [][(/\ Ticked
        /\ nes.ppu.current_scanline = LastScanline
        /\ nes.ppu.current_frame % 2 = 1
        /\ RenderingEnabled(nes.ppu))
       => IF nes.ppu.current_scanline_cycle = LastDot
          THEN /\ nes'.ppu.current_scanline = 0
               /\ nes'.ppu.current_scanline_cycle = 1
               /\ nes'.ppu.current_frame = nes.ppu.current_frame + 1
          ELSE /\ nes'.ppu.current_scanline = LastScanline
               /\ nes'.ppu.current_scanline_cycle = nes.ppu.current_scanline_cycle + 1
               /\ nes'.ppu.current_frame = nes.ppu.current_frame]_vars

C8_Witness ==
    /\ Len(obs.frames) = 1
    /\ obs.frames[1].number = 1
    /\ obs.frames[1].end_on
    /\ obs.frames[1].end_dot = LastDot
    /\ nes.ppu.current_scanline = 0
    /\ nes.ppu.current_scanline_cycle = 1

\* C9: the clock() call that emits the pixel at x = 255 (dot 256 of a visible
\* scanline) never sets the sprite-zero-hit bit of status.
C9_NoHitAtX255 ==
    [][(/\ Ticked
        /\ nes.ppu.current_scanline <= 239
        /\ nes.ppu.current_scanline_cycle = 256
        /\ HitBit(nes.ppu) = 0)
       => HitBit(nes'.ppu) = 0]_vars

\* C10: a clock() call that emits a pixel with x in 0..7 while the mask clips
\* the left column of the background or of the sprites never sets the
\* sprite-zero-hit bit of status.
C10_NoHitInClippedColumn ==
    [][(/\ Ticked
        /\ nes.ppu.current_scanline <= 239
        /\ nes.ppu.current_scanline_cycle \in 1..8
        /\ (Bit(nes.ppu.mask, 1) = 0 \/ Bit(nes.ppu.mask, 2) = 0)
        /\ HitBit(nes.ppu) = 0)
       => HitBit(nes'.ppu) = 0]_vars

\* sprite 0 opaque over an opaque background in a clipped left column, no hit
\* recorded so far
C10_Witness ==
    /\ nes.ppu.current_scanline = 11
    /\ nes.ppu.current_scanline_cycle \in 5..8
    /\ RenderingEnabled(nes.ppu)
    /\ (Bit(nes.ppu.mask, 1) = 0 \/ Bit(nes.ppu.mask, 2) = 0)
    /\ nes.ppu.sprite_zero_on_scanline
    /\ nes.ppu.secondary_oam[0].active
    /\ SpritePaletteIndex(nes.ppu.secondary_oam[0]) # 0
    /\ Bit(nes.ppu.tile_shift_high, 15 - nes.ppu.fine_x) # 0
    /\ HitBit(nes.ppu) = 0

\* the step taken is one pass of run_to_cycle's loop
ApuClocked == apu'.current_cycle = apu.current_cycle + 1

\* the step taken is one half-frame clock of the pulse channels
HalfFrameClocked == sound'.calls = sound.calls + 1 /\ sound'.swept

\* a channel negating with a shift of zero, sounding, its period in range
NegatesByZeroShift(p) ==
    /\ p.sweep_shift = 0
    /\ p.sweep_negate
    /\ p.length_counter.length > 0
    /\ p.period_initial >= 8
    /\ p.period_initial <= 2047

\* what output() gives when the sweep unit does not mute the channel
UnmutedOutput(p) == Bit(p.duty, p.sequence_counter) * EnvelopeCurrentVolume(p.envelope)

\* C11 as stated: with shift 0 and negate set, length > 0 and the period in
\* 8..0x7FF, output() of pulse 1 is the unmuted value and output() of pulse 2
\* is 0.
C11_PulseTwoMuted ==
    (sound.output.recorded /\ NegatesByZeroShift(sound.output.channel))
        => IF sound.output.channel.sweep_ones_compliment
           THEN sound.output.value = UnmutedOutput(sound.output.channel)
           ELSE sound.output.value = 0

\* C11: with shift 0 and negate set, length > 0 and the period in 8..0x7FF,
\* the target period is 0 on pulse 1 and on pulse 2 alike, and output() is
\* the unmuted value on both: the sweep unit mutes neither channel.
C11_NeitherPulseMuted ==
    (sound.output.recorded /\ NegatesByZeroShift(sound.output.channel))
        => /\ PulseTargetPeriod(sound.output.channel) = 0
           /\ sound.output.value = UnmutedOutput(sound.output.channel)

C11_Witness ==
    /\ sound.output.recorded
    /\ NegatesByZeroShift(sound.output.channel)
    /\ ~sound.output.channel.sweep_ones_compliment
    /\ sound.output.channel.period_initial = 1024
    /\ sound.output.value = 15

\* C12: the sequencer clock in which the reset delay of a store to 0x4017
\* expires leaves the counter at 0 and issues exactly one quarter-frame and
\* one half-frame clock when the mode is 1, and none when the mode is 0.
C12_ResetClocks ==
    [][(ApuClocked /\ sound'.clock.reset)
          => /\ sound.frame_writes > 0
             /\ apu.frame_reset_delay = 1
             /\ apu'.frame_reset_delay = 0
             /\ apu'.frame_sequencer = 0
             /\ IF apu'.frame_sequencer_mode = 1
                THEN sound'.clock.quarter = 1 /\ sound'.clock.half = 1
                ELSE sound'.clock.quarter = 0 /\ sound'.clock.half = 0]_vars

C12_Witness ==
    /\ sound.clock.reset
    /\ apu.frame_sequencer_mode = 1
    /\ apu.frame_sequencer = 0
    /\ sound.clock.quarter = 1
    /\ sound.clock.half = 1

\* C13: in 4-step mode with 0x4017 never written, the clock that brings the
\* counter to n issues a quarter-frame clock exactly for n in {7457, 14913,
\* 22371, 29829} and a half-frame clock exactly for n in {14913, 29829},
\* assigns frame_interrupt exactly for n in {29828, 29829, 29830} and returns
\* the counter to 0 at 29830; frame_interrupt is false before cycle 29828
\* and true from then on, so it is true after the 29829th cycle.
C13_FourStepSchedule ==
    (sound.frame_writes = 0 /\ apu.current_cycle > 0)
        => /\ apu.frame_sequencer_mode = 0
           /\ apu.current_cycle <= 29830 => sound.clock.count = apu.current_cycle
           /\ sound.clock.quarter
                 = (IF sound.clock.count \in {7457, 14913, 22371, 29829} THEN 1 ELSE 0)
           /\ sound.clock.half
                 = (IF sound.clock.count \in {14913, 29829} THEN 1 ELSE 0)
           /\ sound.clock.irq_set <=> sound.clock.count \in {29828, 29829, 29830}
           /\ apu.frame_sequencer
                 = (IF sound.clock.count = 29830 THEN 0 ELSE sound.clock.count)
           /\ apu.frame_interrupt <=> apu.current_cycle >= 29828

C13_Witness ==
    /\ sound.frame_writes = 0
    /\ apu.current_cycle = 29829
    /\ sound.clock.count = 29829
    /\ sound.clock.quarter = 1
    /\ sound.clock.half = 1
    /\ apu.frame_interrupt

\* C14 as stated: a sequencer clock made while disable_interrupt is set never
\* changes frame_interrupt from false to true.
C14_NoInterruptWhileDisabled ==
    [][(ApuClocked /\ apu.disable_interrupt)
          => ~(~apu.frame_interrupt /\ apu'.frame_interrupt)]_vars

\* C15 as stated: the sequencer reset comes with the 3rd sequencer clock
\* after a store to 0x4017 made at an odd cycle and with the 4th after one
\* made at an even cycle.
C15_ResetDelayByParity ==
    [][(ApuClocked /\ sound'.clock.reset)
          => sound'.since_write = (IF sound.write_cycle % 2 = 1 THEN 3 ELSE 4)]_vars

\* C16: in 5-step mode every sequencer clock adds one to the counter; a
\* clock that is not the reset issues a quarter-frame clock exactly when the
\* counter reaches 7457, 14913, 22371 or 37281 and a half-frame clock exactly
\* at 14913 and 37281, and returns the counter to 0 at 37282; no clock in
\* this mode assigns frame_interrupt.
C16_FiveStepSchedule ==
    [][(ApuClocked /\ apu.frame_sequencer_mode = 1)
          => /\ sound'.clock.count = apu.frame_sequencer + 1
             /\ ~sound'.clock.irq_set
             /\ apu'.frame_interrupt = apu.frame_interrupt
             /\ ~sound'.clock.reset
                   => /\ sound'.clock.quarter
                            = (IF sound'.clock.count \in {7457, 14913, 22371, 37281}
                               THEN 1 ELSE 0)
                      /\ sound'.clock.half
                            = (IF sound'.clock.count \in {14913, 37281} THEN 1 ELSE 0)
                      /\ apu'.frame_sequencer
                            = (IF sound'.clock.count = 37282 THEN 0
                               ELSE sound'.clock.count)]_vars

C16_Witness ==
    /\ apu.frame_sequencer_mode = 1
    /\ sound.since_write = FrameResetDelay + 37282
    /\ sound.clock.count = 37282
    /\ apu.frame_sequencer = 0
    /\ ~apu.frame_interrupt

\* the target of the sweep, as a number
SweepTarget(p) ==
    LET change == p.period_initial \div (2 ^ p.sweep_shift)
    IN  IF p.sweep_negate
        THEN IF p.sweep_ones_compliment
             THEN p.period_initial - change - 1
             ELSE p.period_initial - change
        ELSE p.period_initial + change

\* update_sweep took the channel from p to q
SweptAsStated(p, q) ==
    LET takes == /\ p.sweep_divider = 0
                 /\ p.sweep_enabled
                 /\ p.sweep_shift # 0
                 /\ p.period_initial >= 8
                 /\ SweepTarget(p) <= 2047
        reloads == p.sweep_divider = 0 \/ p.sweep_reload
    IN  /\ q.period_initial = (IF takes THEN SweepTarget(p) ELSE p.period_initial)
        /\ q.sweep_divider = (IF reloads THEN p.sweep_period ELSE p.sweep_divider - 1)
        /\ q.sweep_reload = (IF reloads THEN FALSE ELSE p.sweep_reload)

-----------------------------------------------------------------------------
(* The status register through vertical blank.                             *)

AtDot(scanline, dot) ==
    nes.ppu.current_scanline = scanline /\ nes.ppu.current_scanline_cycle = dot

StatusFlagBits == {5, 6, 7}

\* C18: the tick at dot 1 of scanline 261 turns status into status & 0x1F,
\* rendering enabled or not, and no other tick clears the vblank, the
\* sprite-zero-hit or the sprite-overflow bit.
C18_PrerenderClearsFlags ==
    [][Ticked =>
          IF AtDot(LastScanline, 1)
          THEN nes'.ppu.status = BitAnd(nes.ppu.status, 31)
          ELSE \A b \in StatusFlagBits :
                  Bit(nes.ppu.status, b) = 1 => Bit(nes'.ppu.status, b) = 1]_vars

\* the tick of dot 1 of scanline 261 has just cleared all three flags, after a
\* store that left rendering disabled
C18_Witness ==
    /\ AtDot(LastScanline, 2)
    /\ obs.ppu_ticks > 0
    /\ obs.status_before = 224
    /\ nes.ppu.status = 0
    /\ ~RenderingEnabled(nes.ppu)

\* C19: a tick sets status bit 7 when it is the tick of dot 1 of scanline 241
\* and at no other tick, and with no read of the status register the bit stays
\* set over every tick but that of dot 1 of scanline 261.
C19_VblankFlagOncePerFrame ==
    [][Ticked =>
          /\ AtDot(241, 1) => Bit(nes'.ppu.status, 7) = 1
          /\ (Bit(nes.ppu.status, 7) = 0 /\ Bit(nes'.ppu.status, 7) = 1)
                => AtDot(241, 1)
          /\ (Bit(nes.ppu.status, 7) = 1 /\ ~AtDot(LastScanline, 1))
                => Bit(nes'.ppu.status, 7) = 1
          /\ AtDot(LastScanline, 1) => Bit(nes'.ppu.status, 7) = 0]_vars

\* the tick of dot 1 of scanline 241 has just raised the flag
C19_Witness ==
    /\ AtDot(241, 2)
    /\ obs.ppu_ticks > 0
    /\ Bit(obs.status_before, 7) = 0
    /\ Bit(nes.ppu.status, 7) = 1

-----------------------------------------------------------------------------
(* Sprite evaluation.                                                      *)

\* the OAM entries of p in range on scanline s
InRangeEntries(p, s) ==
    {i \in 0..(OamSprites - 1) :
        s >= p.oam[i * 4] /\ s < p.oam[i * 4] + SpriteSize(p)}

\* the k-th of them in ascending OAM index order, k counted from 0
InRangeEntry(p, s, k) ==
    CHOOSE i \in InRangeEntries(p, s) :
        Cardinality({j \in InRangeEntries(p, s) : j < i}) = k

Min(a, b) == IF a < b THEN a ELSE b

Evaluated ==
    /\ Ticked
    /\ nes.ppu.current_scanline < 240
    /\ nes.ppu.current_scanline_cycle = 257
    /\ RenderingEnabled(nes.ppu)

\* C20: after sprite evaluation on scanline s with n OAM entries in range,
\* secondary_oam_index is min(n, 8), the slots below it hold the Y, tile,
\* attributes and X of the first min(n, 8) in-range entries in ascending OAM
\* index order with active false, the sprite-overflow bit is set if n > 8 and
\* left as it was otherwise, and sprite_zero_on_scanline is true exactly when
\* OAM entry 0 is in range.
C20_SpriteEvaluation ==
    [][Evaluated =>
          LET p == nes.ppu
              q == nes'.ppu
              s == p.current_scanline
              n == Cardinality(InRangeEntries(p, s))
          IN  /\ q.secondary_oam_index = Min(n, 8)
              /\ \A k \in 0..(Min(n, 8) - 1) :
                    LET i == InRangeEntry(p, s, k)
                    IN  /\ q.secondary_oam[k].y_pos = p.oam[i * 4]
                        /\ q.secondary_oam[k].tile_index = p.oam[i * 4 + 1]
                        /\ q.secondary_oam[k].attributes = p.oam[i * 4 + 2]
                        /\ q.secondary_oam[k].x_counter = p.oam[i * 4 + 3]
                        /\ q.secondary_oam[k].active = FALSE
              /\ Bit(q.status, 5) = IF n > 8 THEN 1 ELSE Bit(p.status, 5)
              /\ q.sprite_zero_on_scanline = (0 \in InRangeEntries(p, s))]_vars

\* evaluation has just found ten entries in range, entry 0 not among them and
\* out-of-range entries between them, the overflow bit clear before it
C20_Witness ==
    /\ nes.ppu.current_scanline_cycle = 258
    /\ obs.ppu_ticks > 0
    /\ Cardinality(InRangeEntries(nes.ppu, nes.ppu.current_scanline)) = 10
    /\ 0 \notin InRangeEntries(nes.ppu, nes.ppu.current_scanline)
    /\ 2 \notin InRangeEntries(nes.ppu, nes.ppu.current_scanline)
    /\ Bit(obs.status_before, 5) = 0
    /\ Bit(nes.ppu.status, 5) = 1
    /\ nes.ppu.secondary_oam_index = 8

-----------------------------------------------------------------------------
(* The DMC's sample fetches.                                               *)

\* a sample that does not loop and raises the interrupt was started
OneShotStarted ==
    ~dmc.looping /\ dmc.interrupt_enabled /\ dmc.sample_length > 0

\* the sample's L reads and nothing after them, the address L bytes after
\* the start as a plain sum
C21_SampleEndsAsStated ==
    OneShotStarted =>
        /\ bus.reads <= dmc.sample_length
        /\ bus.reads < dmc.sample_length => ~dmc.interrupt_flag
        /\ bus.reads = dmc.sample_length =>
              /\ dmc.bytes_remaining = 0
              /\ dmc.interrupt_flag
              /\ dmc.current_address = dmc.starting_address + dmc.sample_length

\* C21: a sample of L > 0 bytes that does not loop, the interrupt enabled:
\* after exactly L reads bytes_remaining is 0, interrupt_flag is set and
\* current_address is starting_address + L in 16 bits (0xC000 and 16 give
\* 0xC010), the flag is not set before the L-th read, and no read follows it.
C21_SampleEnds ==
    OneShotStarted =>
        /\ bus.reads <= dmc.sample_length
        /\ bus.reads < dmc.sample_length => ~dmc.interrupt_flag
        /\ bus.reads = dmc.sample_length =>
              /\ dmc.bytes_remaining = 0
              /\ dmc.interrupt_flag
              /\ dmc.current_address =
                     (dmc.starting_address + dmc.sample_length) % 65536

\* the sixteen bytes from 0xC000 were read and the channel has been clocked
\* through an output cycle since
C21_Witness ==
    /\ OneShotStarted
    /\ dmc.starting_address = 49152
    /\ bus.reads = 16
    /\ dmc.current_address = 49168
    /\ dmc.interrupt_flag
    /\ dmc.sample_buffer_empty
    /\ dmc.silence_flag
    /\ ~bus.fetched

\* C26: a fetch the mapper answers with None leaves the last byte seen on
\* the CPU bus in the sample buffer, and completes as any other fetch.
C26_OpenBusFetch ==
    [][(bus'.reads = bus.reads + 1 /\ ~bus'.answered) =>
          /\ dmc'.sample_buffer = bus.open_bus
          /\ ~dmc'.sample_buffer_empty
          /\ bus'.last_address = DmcSampleAddress(dmc)]_vars

\* C30: a clock that finds the sample buffer empty with bytes remaining
\* asserts rdy_line, and the byte is fetched by the fourth such clock in a
\* row; the fetch deasserts rdy_line and zeroes rdy_delay; after a clock that
\* leaves the buffer full or no bytes remaining rdy_line is false and
\* rdy_delay is 0.
C30_FetchWithinFourClocks ==
    bus.clocks > 0 =>
        /\ (dmc.sample_buffer_empty /\ dmc.bytes_remaining > 0) => dmc.rdy_line
        /\ bus.waited < 4 \/ (bus.waited = 4 /\ bus.fetched)
        /\ (bus.waited > 0 /\ ~bus.fetched) => dmc.rdy_line
        /\ bus.fetched => (~dmc.rdy_line /\ dmc.rdy_delay = 0)
        /\ (~dmc.sample_buffer_empty \/ dmc.bytes_remaining = 0)
              => (~dmc.rdy_line /\ dmc.rdy_delay = 0)

\* a byte fetched on the third clock after an output cycle emptied the buffer
C30_Witness ==
    /\ bus.fetched
    /\ bus.waited = 3
    /\ bus.reads = 2
    /\ dmc.bytes_remaining > 0

-----------------------------------------------------------------------------
(* The length counter.                                                     *)

LengthCalled(name) ==
    sound'.calls = sound.calls + 1 /\ sound'.length_call = name

\* C28: clock() takes 1 off length exactly when the channel is enabled, not
\* halted and length > 0, leaves it as it is when enabled and halted or at 0,
\* and makes it 0 when the channel is disabled; set_length(index), index in
\* 0..31, loads the table's value when the channel is enabled and leaves the
\* counter at 0 otherwise.  Neither changes the flags.
C28_LengthCounter ==
    [][LET l == pulse.length_counter
           l1 == pulse'.length_counter
       IN  /\ LengthCalled("clock") =>
                 /\ l1.length >= 0
                 /\ l1.length = IF ~l.channel_enabled THEN 0
                                ELSE IF ~l.halt_flag /\ l.length > 0
                                THEN l.length - 1
                                ELSE l.length
                 /\ l1.halt_flag = l.halt_flag
                 /\ l1.channel_enabled = l.channel_enabled
           /\ LengthCalled("set_length") =>
                 /\ l1.length = IF l.channel_enabled
                                THEN LengthTable[sound'.length_index + 1]
                                ELSE 0
                 /\ l1.halt_flag = l.halt_flag
                 /\ l1.channel_enabled = l.channel_enabled]_vars

\* a clock has taken the counter from 254, loaded by set_length(1), to 253
C28_Witness ==
    /\ sound.length_call = "clock"
    /\ pulse.length_counter.length = 253
    /\ pulse.length_counter.channel_enabled
    /\ ~pulse.length_counter.halt_flag

-----------------------------------------------------------------------------
(* The arithmetic of the Y-range test.                                     *)

\* C22: for every OAM Y in 0..255, either sprite size and every scanline in
\* 0..239 the range test's sum Y + sprite_size is formed without leaving
\* 8 bits, so the test answers as the plain comparison does and a sprite at
\* Y >= 240 is out of range.
C22_RangeTestNeverOverflows ==
    range.tested =>
        /\ ~range.overflowed
        /\ ~range.panicked
        /\ range.in_range = (range.scanline >= range.y
                             /\ range.scanline < range.y + range.sprite_size)
        /\ range.y >= 240 => ~range.in_range

\* the test made on scanline 239 for a sprite parked at Y = 248, whose sum
\* with either size would not fit 8 bits
C22_Witness ==
    /\ range.tested
    /\ range.scanline = 239
    /\ range.y = 248
    /\ range.sprite_size = 16
    /\ range.overflow_checks
    /\ ~range.in_range

-----------------------------------------------------------------------------
(* The arithmetic of target_period.                                        *)

\* C23: target_period leaves the range of u16 for no period_initial in
\* 0..0x7FF, no sweep_shift in 0..7, neither value of sweep_negate and neither
\* complement mode, in apu/pulse.rs and in apu.rs.
C23_TargetPeriodNeverOverflows ==
    sound.target.called =>
        /\ ~sound.target.pulse_rs_overflowed
        /\ ~sound.target.apu_rs_overflowed

-----------------------------------------------------------------------------
(* The output of a pulse channel.                                          *)

SampleGenerated == apu'.generated_samples = apu.generated_samples + 1

\* output() as stated, of a channel of apu.rs
OutputAsStated(p) ==
    IF p.length = 0 \/ SweepTarget(p) > 2047 \/ p.period_initial < 8
    THEN 0
    ELSE ((p.duty \div (2 ^ p.sequence_counter)) % 2) * p.volume

\* C27: output() is 0 when the length counter is 0, the sweep target exceeds
\* 0x7FF or period_initial < 8, and the duty bit times the volume otherwise,
\* so within 0..15: of the outputs run_to_cycle makes a sample of.
C27_PulseOutput ==
    [][SampleGenerated =>
          /\ apu'.last_sample.pulse_1 = OutputAsStated(apu'.pulse_1)
          /\ apu'.last_sample.pulse_2 = OutputAsStated(apu'.pulse_2)
          /\ apu'.last_sample.pulse_1 \in 0..15
          /\ apu'.last_sample.pulse_2 \in 0..15]_vars

-----------------------------------------------------------------------------
(* What the frame sequencer's clocks reach.                                *)

\* the step taken is a cycle without a store whose clock_frame_sequencer
\* call issued a half-frame (a quarter-frame) clock
HalfFrameIssued ==
    ApuClocked /\ sound'.writes = sound.writes /\ sound'.clock.half > 0

QuarterFrameIssued ==
    ApuClocked /\ sound'.writes = sound.writes /\ sound'.clock.quarter > 0

\* p1 is p after its length counter was clocked, p being a channel of apu.rs
LengthClocked(p, p1) ==
    (p.length > 0 /\ p.length_enabled) => p1.length = p.length - 1

\* p1 is p after its envelope was clocked
EnvelopeClocked(p, p1) == p.envelope_start => ~p1.envelope_start

\* C29: every half-frame clock clocks the length counter of both pulse
\* channels (besides their sweep units), and every quarter-frame clock clocks
\* their envelopes.
C29_FrameClocksReachChannels ==
    [][/\ HalfFrameIssued => /\ LengthClocked(apu.pulse_1, apu'.pulse_1)
                             /\ LengthClocked(apu.pulse_2, apu'.pulse_2)
       /\ QuarterFrameIssued => /\ EnvelopeClocked(apu.pulse_1, apu'.pulse_1)
                                /\ EnvelopeClocked(apu.pulse_2, apu'.pulse_2)]_vars

-----------------------------------------------------------------------------
(* Saved states.                                                           *)

\* the fields of an object that save_state writes: of a pulse channel, all
\* the model holds but last_edge
SerializedFields(kind, object) ==
    IF kind = "pulse" THEN [object EXCEPT !.last_edge = FALSE] ELSE object

LoadedBack == save.done = "loaded" /\ ~save.cut

\* C24: save_state followed by load_state on the buffer it produced restores
\* every serialized field of a NesState, a PulseChannelState and a
\* LengthCounterState, load_state taking the fields in the reverse of the
\* order they were written in, and leaves the buffer as long as it was
\* before save_state.
C24_SaveLoadRoundTrip ==
    LoadedBack =>
        /\ ~save.aborted
        /\ SerializedFields(save.kind, save.target)
             = SerializedFields(save.kind, save.source)
        /\ save.buff = save.prefix

C24_Witness ==
    /\ LoadedBack
    /\ save.kind = "pulse"
    /\ save.prefix # <<>>
    /\ save.target.period_initial = 1100
    /\ save.target.period_current = 256
    /\ save.target.cpu_clock_rate = 1786860
    /\ save.target.sweep_ones_compliment
    /\ save.target.length_counter.length = 10

\* C25: load_state given a buffer shorter than save_state produced returns
\* a StateMismatch error to its caller and does not abort the program.
C25_ShortBufferReported ==
    (save.done = "loaded" /\ save.cut) =>
        /\ save.returned = "StateMismatch"
        /\ ~save.aborted

-----------------------------------------------------------------------------
(* The sample address past the end of the address space.                   *)

\* the step taken is a clock that read a sample byte
SampleRead == bus'.reads = bus.reads + 1

\* the read about to be made is the last of a looping sample, which
\* restarts it
RestartsLoop == dmc.looping /\ dmc.bytes_remaining = 1

\* C31 as stated: after a sample read made with current_address = 0xFFFF,
\* current_address is 0x8000.
C31_AddressWrapsAsStated ==
    [][(SampleRead /\ dmc.current_address = 65535)
          => dmc'.current_address = 32768]_vars

\* C31: a sample read made with current_address = 0xFFFF that does not
\* restart a looping sample leaves current_address at 0x0000, and the read
\* after it hands the address 0x8000 to the mapper: the address read wraps
\* to 0x8000, the field to 0x0000.
C31_AddressWraps ==
    [][/\ (SampleRead /\ dmc.current_address = 65535 /\ ~RestartsLoop)
            => dmc'.current_address = 0
       /\ (SampleRead /\ bus.last_address = 65535 /\ dmc.current_address = 0)
            => bus'.last_address = 32768]_vars

\* the read after the one at 0xFFFF has been made
C31_Witness ==
    /\ bus.fetched
    /\ bus.last_address = 32768
    /\ dmc.starting_address = 65472
    /\ dmc.current_address = 1
    /\ bus.reads = 65

-----------------------------------------------------------------------------
(* The output level of the DMC.                                            *)

\* the step taken is a clock whose timer expired: one step of the output
\* unit
OutputStepped == bus'.clocks = bus.clocks + 1 /\ dmc.period_current = 0

\* the level after one output step, as stated
SteppedLevel(d) ==
    LET delta == IF d.shift_register % 2 = 1 THEN 2 ELSE -2
    IN  IF ~d.silence_flag /\ d.output_level + delta \in 0..127
        THEN d.output_level + delta
        ELSE d.output_level

\* C32: from an output level in 0..127, every clock leaves the level in
\* 0..127: an output step moves it by +2 (low bit of the shift register 1)
\* or -2 (low bit 0) when the result stays in range and the silence flag is
\* clear, and not at all otherwise; bits_remaining is in 1..8 after every
\* clock.
C32_OutputLevelInRange ==
    [][/\ dmc'.output_level \in 0..127
       /\ dmc'.bits_remaining \in 1..8
       /\ OutputStepped => dmc'.output_level = SteppedLevel(dmc)
       /\ ~OutputStepped => dmc'.output_level = dmc.output_level]_vars

\* the level held at 127 by a step up that would leave the range
C32_Witness ==
    /\ dmc.output_level = 127
    /\ ~dmc.silence_flag
    /\ bus.prg = 255
    /\ dmc.bits_remaining = 1
    /\ bus.reads >= 2

-----------------------------------------------------------------------------
(* The early access of a visible scanline.                                 *)

OnVisibleDot(p, dot) ==
    /\ p.current_scanline \in 0..239
    /\ p.current_scanline_cycle = dot
    /\ BitAnd(p.mask, 24) # 0

\* the one call of a tick that showed the mapper the tile-low address of p
\* and read nothing
EarlyAccessOf(p) ==
    <<[op |-> "access_ppu",
       address |-> ((IF (p.control \div 16) % 2 = 1 THEN 4096 ELSE 0)
                      + p.tile_index * 16
                      + ((p.current_vram_address \div 4096) % 8)) % 16384]>>

EarlyAccessMade(p) ==
    Len(p.mapper_calls) = 1 /\ p.mapper_calls[1].op = "access_ppu"

\* the frame was entered by the jump of an odd frame's pre-render dot 340:
\* no tick of it has been made before dot 1 of scanline 0
EnteredAtDotOne(p) == p.current_scanline = 0 /\ obs.frame_ticks = 0

\* C33 as stated: with rendering enabled, the tick of dot 1 of every visible
\* scanline, the first to read, follows a tick of dot 0 that made one
\* access_ppu call.
C33_EarlyAccessOnEveryScanline ==
    [][(Ticked /\ OnVisibleDot(nes.ppu, 1)) => EarlyAccessMade(nes.ppu)]_vars

\* C33: with rendering enabled, the tick of dot 0 of a visible scanline
\* makes exactly one mapper call, an access_ppu of the background tile-low
\* address, and no other tick makes an access_ppu call; every visible
\* scanline has that tick before its first read but scanline 0 of a frame
\* entered by the odd-frame jump, which begins at dot 1 and has none.
C33_EarlyAccess ==
    [][Ticked =>
          /\ OnVisibleDot(nes.ppu, 0)
                => nes'.ppu.mapper_calls = EarlyAccessOf(nes.ppu)
          /\ ~OnVisibleDot(nes.ppu, 0)
                => \A i \in 1..Len(nes'.ppu.mapper_calls) :
                      nes'.ppu.mapper_calls[i].op # "access_ppu"
          /\ OnVisibleDot(nes.ppu, 1)
                => (EarlyAccessMade(nes.ppu) <=> ~EnteredAtDotOne(nes.ppu))]_vars

\* dot 0 of scanline 0 of an odd frame has been ticked
C33_Witness ==
    /\ OnVisibleDot(nes.ppu, 1)
    /\ nes.ppu.current_scanline = 0
    /\ nes.ppu.current_frame = 1
    /\ EarlyAccessMade(nes.ppu)
    /\ nes.ppu.mapper_calls[1].address = 4080

-----------------------------------------------------------------------------
(* The scroll reloads.                                                     *)

\* v with the bits of mask taken from t, bit by bit from bit i upwards
RECURSIVE WithBitsOf(_, _, _, _)
WithBitsOf(v, t, mask, i) ==
    IF i > 15 THEN 0
    ELSE (IF (mask \div (2 ^ i)) % 2 = 1 THEN (t \div (2 ^ i)) % 2
                                          ELSE (v \div (2 ^ i)) % 2) * (2 ^ i)
         + WithBitsOf(v, t, mask, i + 1)

RenderingAt(p, scanlines, dots) ==
    /\ p.current_scanline \in scanlines
    /\ p.current_scanline_cycle \in dots
    /\ (p.mask \div 8) % 4 # 0

\* C34: with rendering enabled, the tick of dot 257 of a visible or the
\* pre-render scanline replaces exactly the bits 0x041F of v by those of t,
\* each tick of dots 280..304 of the pre-render scanline replaces exactly
\* the bits 0x7BE0; no tick changes t or fine_x, so that after dot 304 of a
\* pre-render scanline without a store to t, v = t.
C34_ScrollReloads ==
    [][Ticked =>
          /\ RenderingAt(nes.ppu, 0..239 \cup {261}, {257})
                => nes'.ppu.current_vram_address
                     = WithBitsOf(nes.ppu.current_vram_address,
                                  nes.ppu.temporary_vram_address, 1055, 0)
          /\ RenderingAt(nes.ppu, {261}, 280..304)
                => nes'.ppu.current_vram_address
                     = WithBitsOf(nes.ppu.current_vram_address,
                                  nes.ppu.temporary_vram_address, 31712, 0)
          /\ nes'.ppu.temporary_vram_address = nes.ppu.temporary_vram_address
          /\ nes'.ppu.fine_x = nes.ppu.fine_x
          /\ RenderingAt(nes.ppu, {261}, {304})
                => nes'.ppu.current_vram_address = nes'.ppu.temporary_vram_address]_vars

\* past dot 304 of a pre-render scanline, v holding the 0x2A55 of t, which
\* no run begins with
C34_Witness ==
    /\ RenderingAt(nes.ppu, {261}, {305})
    /\ nes.ppu.current_vram_address = 10837
    /\ nes.ppu.temporary_vram_address = 10837
    /\ nes.ppu.fine_x = 5
    /\ obs.ppu_ticks = 50

-----------------------------------------------------------------------------
(* The fine-Y increment.                                                   *)

\* v after the increment, by its fields: row 29 carries into the other
\* vertical nametable, the rows of wrapping go to 0 in the same one
FineYIncremented(v, wrapping) ==
    LET coarse_x == v % 32
        coarse_y == (v \div 32) % 32
        horizontal == (v \div 1024) % 2
        vertical == (v \div 2048) % 2
        fine_y == (v \div 4096) % 8
        top == v \div 32768
        carry == fine_y = 7
        coarse_y1 == IF ~carry THEN coarse_y
                     ELSE IF coarse_y = 29 \/ coarse_y \in wrapping THEN 0
                     ELSE coarse_y + 1
        vertical1 == IF carry /\ coarse_y = 29 THEN 1 - vertical ELSE vertical
    IN  coarse_x + coarse_y1 * 32 + horizontal * 1024 + vertical1 * 2048
          + ((fine_y + 1) % 8) * 4096 + top * 32768

FineYCalled == pc = "idle" /\ pc' = "incremented"

\* C35 as stated: the fine-Y increment carries into coarse-Y only from
\* fine-Y 7; on carry coarse-Y 29 wraps to 0 and flips bit 11 of v, coarse-Y
\* 30 or 31 wraps to 0 without flipping it and any other coarse-Y increases
\* by 1; coarse-X, bit 10 and bit 15 are unchanged and v stays within 15
\* bits.
C35_FineYIncrementAsStated ==
    [][FineYCalled =>
          /\ nes'.ppu.current_vram_address
               = FineYIncremented(nes.ppu.current_vram_address, {30, 31})
          /\ nes'.ppu.current_vram_address < 32768]_vars

\* C35: the fine-Y increment carries into coarse-Y only from fine-Y 7; on
\* carry coarse-Y 29 wraps to 0 and flips bit 11 of v, coarse-Y 31 wraps to
\* 0 without flipping it and any other coarse-Y, 30 included, increases by
\* 1; coarse-X, bit 10 and bit 15 are unchanged and v stays within 15 bits.
C35_FineYIncrement ==
    [][FineYCalled =>
          /\ nes'.ppu.current_vram_address
               = FineYIncremented(nes.ppu.current_vram_address, {31})
          /\ nes'.ppu.current_vram_address < 32768]_vars

\* the carry out of row 29 of the lower nametable was made
C35_Witness ==
    /\ pc = "incremented"
    /\ nes.ppu.current_vram_address = 2048 + 1024 + 21

-----------------------------------------------------------------------------
(* Buffered reads of the data port.                                        *)

DataRead == obs'.data_reads = obs.data_reads + 1

\* the byte the cartridge holds at an address, or the open bus
ByteUnder(address) ==
    LET byte == IF address % 16384 < 8192 THEN cart.chr ELSE cart.nt
    IN  IF byte = NoByte THEN nes.ppu.open_bus ELSE byte

\* the palette entry a read of a palette address returns
PaletteEntryAt(address) ==
    LET index == address % 32
        entry == nes.ppu.palette[IF index \in {16, 20, 24, 28} THEN index - 16
                                 ELSE index]
    IN  IF nes.ppu.mask % 2 = 1 THEN ((entry \div 16) % 4) * 16 ELSE entry

BelowPalette(address) == address % 16384 < 16128

\* C36: a buffered read of an address below 0x3F00 returns the read buffer
\* as it was and refills it with the byte at that address, so that the next
\* read below 0x3F00 returns that byte; a read of a palette address returns
\* the palette entry at once and fills the buffer with the byte under it.
C36_BufferedRead ==
    [][DataRead =>
          /\ BelowPalette(obs'.read_address)
                => /\ obs'.read_value = nes.ppu.read_buffer
                   /\ nes'.ppu.read_buffer = ByteUnder(obs'.read_address)
          /\ (BelowPalette(obs'.read_address) /\ obs.data_reads > 0
                /\ BelowPalette(obs.read_address) /\ cart # OpenBusCart)
                => obs'.read_value
                     = (IF obs.read_address % 16384 < 8192 THEN cart.chr ELSE cart.nt)
          /\ ~BelowPalette(obs'.read_address)
                => /\ obs'.read_value = PaletteEntryAt(obs'.read_address)
                   /\ nes'.ppu.read_buffer = ByteUnder(obs'.read_address)]_vars

\* the second read returned the nametable byte the first one buffered
C36_Witness ==
    /\ obs.data_reads = 2
    /\ obs.read_address = 0
    /\ obs.read_value = 204
    /\ nes.ppu.read_buffer = 17

-----------------------------------------------------------------------------
(* The loops of run_until_hblank and run_until_vblank.                     *)

RunReturned(kind) == pc = "idle" /\ obs.run_kind = kind

\* C37: with every step() of 1 to 11 CPU cycles, run_until_hblank and
\* run_until_vblank return; run_until_vblank returns on scanline 242, no
\* pass of its second loop takes the PPU from before scanline 242 to after
\* it, and a call that follows another run_until_vblank call returns one
\* frame after that one did.
C37_RunLoops ==
    /\ (pc # "idle") ~> (pc = "idle")
    /\ [](RunReturned("vblank") => nes.ppu.current_scanline = 242)
    /\ [](RunReturned("vblank") /\ obs.prev_kind = "vblank"
            => nes.ppu.current_frame = obs.run_frame + 1)
    /\ [][(pc' = "vblank_wait" /\ nes.ppu.current_scanline < 242)
            => /\ nes'.ppu.current_scanline \in nes.ppu.current_scanline..241
               /\ nes'.ppu.current_frame = nes.ppu.current_frame]_vars

\* the second of two run_until_vblank calls has returned, a frame later
C37_Witness ==
    /\ RunReturned("vblank")
    /\ obs.prev_kind = "vblank"
    /\ obs.run_calls = 2
    /\ nes.ppu.current_frame = 1
    /\ nes.ppu.current_scanline = 242
    /\ obs.short_steps = MaxShortSteps

-----------------------------------------------------------------------------
(* The tile shift registers and the pixels they give.                      *)

\* v with its coarse X moved n tiles back, across the nametable's edge
TilesBack(v, n) ==
    IF v % 32 >= n THEN v - n
    ELSE BitXor(v + 32 - n, 1024)

\* the pattern byte of a plane (0 low, 1 high) of the tile v points at, on
\* the row of v's fine Y
PatternByteAt(v, plane) ==
    LET tile == MapperReadPpu(cart, 8192 + (v % 4096))
    IN  MapperReadPpu(cart, BgPatternAddress(nes.ppu) + tile * 16 + plane * 8
                              + ((v \div 4096) % 8))

\* the pattern bytes of the tile n tiles before the one v points at
TileBehind(n, plane) == PatternByteAt(TilesBack(nes.ppu.current_vram_address, n), plane)

PrefetchDone ==
    /\ nes.ppu.current_scanline_cycle = 337
    /\ obs.ppu_ticks = 17

ColumnDrawn ==
    /\ Ticked
    /\ nes.ppu.current_scanline <= 239
    /\ nes.ppu.current_scanline_cycle \in 1..256

\* C38: with rendering enabled, after dots 321..336 each tile shift register
\* holds the first pre-fetched tile's pattern byte in its high byte and the
\* second's in its low byte; with fine_x = 0 the tick that emits column x
\* of the next scanline finds bit 7 - (x mod 8) of the pattern bytes of that
\* scanline's tile x div 8 in bit 15 of the registers, and that is the
\* pixel's palette index where the background is shown.
C38_TilePrefetch ==
    [][/\ PrefetchDone'
          => /\ nes'.ppu.tile_shift_low = TileBehind(2, 0)' * 256 + TileBehind(1, 0)'
             /\ nes'.ppu.tile_shift_high = TileBehind(2, 1)' * 256 + TileBehind(1, 1)'
       /\ ColumnDrawn
          => LET x == nes.ppu.current_scanline_cycle - 1
                 low == Bit(TileBehind(2, 0), 7 - (x % 8))
                 high == Bit(TileBehind(2, 1), 7 - (x % 8))
             IN  /\ Bit(nes.ppu.tile_shift_low, 15) = low
                 /\ Bit(nes.ppu.tile_shift_high, 15) = high
                 /\ nes'.ppu.plot.x = x
                 /\ nes'.ppu.plot.y = nes.ppu.current_scanline
                 /\ (BitAnd(nes.ppu.mask, 2) # 0 \/ x >= 8)
                       => nes'.ppu.plot.pixel % 4 = 2 * high + low]_vars

\* column 9 of scanline 0 has been emitted from the second pre-fetched tile,
\* the last of its nametable, whose two planes differ there
C38_Witness ==
    /\ nes.ppu.current_scanline = 0
    /\ nes.ppu.current_scanline_cycle = 11
    /\ nes.ppu.plot.x = 9
    /\ nes.ppu.plot.y = 0
    /\ nes.ppu.plot.pixel % 4 = 1
    /\ nes.ppu.current_vram_address = 1025

-----------------------------------------------------------------------------
(* The columns a sprite is drawn in.                                       *)

\* the tick emits a pixel of the scanline after the one sprite 0 is on
SpriteRowDrawn ==
    /\ Ticked
    /\ nes.ppu.current_scanline = nes.ppu.oam[0] + 1
    /\ nes.ppu.current_scanline_cycle \in 1..256

\* the palette index of the sprite's first pixel: bit 7 of its two pattern
\* bytes, bit 0 when it is flipped
FirstSpritePixel ==
    LET low == MapperReadPpu(cart, nes.ppu.oam[1] * 16)
        high == MapperReadPpu(cart, nes.ppu.oam[1] * 16 + 8)
        bit == IF BitAnd(nes.ppu.oam[2], 64) # 0 THEN 0 ELSE 7
    IN  2 * Bit(high, bit) + Bit(low, bit)

\* the pixel emitted is one of the sprite palettes' opaque colours
SpritePixelEmitted == nes'.ppu.plot.pixel >= 17

\* C39: for every OAM X value k in 0..=255 a sprite selected for a scanline
\* gives its first pixel to the pixel emitted at column k, and an opaque
\* pixel to no column outside k..k+7.
C39_SpriteAtItsColumn ==
    [][SpriteRowDrawn
          => LET x == nes.ppu.current_scanline_cycle - 1
                 k == nes.ppu.oam[3]
             IN  /\ x = k => nes'.ppu.plot.pixel = 16 + FirstSpritePixel
                 /\ SpritePixelEmitted => x \in k..(k + 7)]_vars

\* what the code does: the same, but with the sprite of OAM X = 0 drawn
\* where that of OAM X = 1 is
C39_SpriteAtItsColumnFromOne ==
    [][SpriteRowDrawn
          => LET x == nes.ppu.current_scanline_cycle - 1
                 k == IF nes.ppu.oam[3] = 0 THEN 1 ELSE nes.ppu.oam[3]
             IN  /\ x = k => nes'.ppu.plot.pixel = 16 + FirstSpritePixel
                 /\ SpritePixelEmitted => x \in k..(k + 7)]_vars

-----------------------------------------------------------------------------
(* The PPU's tick while rendering is disabled.                             *)

DisabledTick ==
    /\ Ticked
    /\ BitAnd(nes.ppu.mask, 24) = 0

\* the PPU with its frame position, framebuffer, status register and the
\* history of mapper calls set aside
BesidesPositionPlotStatus(p) ==
    [p EXCEPT !.current_frame = 0, !.current_scanline = 0,
              !.current_scanline_cycle = 0, !.plot = PpuNew.plot,
              !.status = 0, !.mapper_calls = <<>>]

\* C40: while rendering is disabled (mask & 0x18 == 0) a PPU tick makes no
\* mapper call and leaves v, t, fine_x, the background shift registers and
\* latches, OAM, secondary OAM, secondary_oam_index, sprite_zero_on_scanline,
\* open_bus and read_buffer unchanged; it changes only the frame position,
\* framebuffer cells on visible scanlines, and bits 5..7 of the status
\* register at dot 1 of scanline 241 and of the pre-render scanline.
C40_DisabledTick ==
    [][DisabledTick
          => /\ nes'.ppu.mapper_calls = <<>>
             /\ cart' = cart
             /\ \A f \in {"current_vram_address", "temporary_vram_address", "fine_x",
                          "tile_shift_low", "tile_shift_high", "palette_shift_low",
                          "palette_shift_high", "tile_low", "tile_high",
                          "palette_latch", "oam", "secondary_oam",
                          "secondary_oam_index", "sprite_zero_on_scanline",
                          "open_bus", "read_buffer"} :
                   nes'.ppu[f] = nes.ppu[f]
             /\ BesidesPositionPlotStatus(nes'.ppu) = BesidesPositionPlotStatus(nes.ppu)
             /\ nes'.ppu.plot # nes.ppu.plot
                   => /\ nes.ppu.current_scanline <= 239
                      /\ nes.ppu.current_scanline_cycle \in 1..256
             /\ nes'.ppu.status % 32 = nes.ppu.status % 32
             /\ nes'.ppu.status # nes.ppu.status
                   => /\ nes.ppu.current_scanline \in {241, LastScanline}
                      /\ nes.ppu.current_scanline_cycle = 1]_vars

\* rendering was switched off after a rendered frame: the tick of dot 1 of
\* the pre-render scanline has cleared the three status bits, and the tiles
\* and the scroll of the frame are still in the registers
C40_Witness ==
    /\ BitAnd(nes.ppu.mask, 24) = 0
    /\ nes.ppu.current_scanline = LastScanline
    /\ nes.ppu.current_scanline_cycle = 2
    /\ obs.status_before = 224
    /\ nes.ppu.status = 0
    /\ nes.ppu.tile_shift_low = 65535
    /\ nes.ppu.current_vram_address # 0
    /\ nes.ppu.open_bus = 255

====
